---- MODULE Spec2Model ----
(***************************************************************************)
(* A model of the Reddit API access core of likeminded (crate              *)
(* reddit-client): the request queue, the retry executor with its circuit  *)
(* breaker and the HTTP pipeline it wraps, the rate limiter and the OAuth2 *)
(* state machine of RedditClient.  Each component has its own next-state   *)
(* relation and specification over the shared variables; a component's     *)
(* specification leaves the other components' variables unchanged.         *)
(***************************************************************************)
EXTENDS Integers, Sequences, FiniteSets, TLC

VARIABLES
    now,            \* the clock (SystemTime::now / Instant::now), unit per component
    \* ---- request queue (request_queue.rs) ----
    queue,          \* RequestQueue.queue: the BinaryHeap, as a set of PriorityRequest
    requests,       \* RequestQueue.requests: request_id -> QueuedRequest
    result_senders, \* RequestQueue.result_senders: the ids that have a sender
    rows,           \* table request_queue: request_id -> row
    received,       \* what each enqueue's receiver has been sent, in order
    nextId,         \* the next fresh request id (Uuid::new_v4)
    procPc,         \* the processor task: "idle" or "executing"
    procReq,        \* execute_request's local `request` while executing
    enqueueResult,  \* the result of the last enqueue_request call
    enqPending,     \* enqueue_request calls between their size check and their push
    cancelResult,   \* the last cancel_request call: its id and what it returned
    executions,     \* request id -> how many times execute_request ran for it
    \* ---- retry executor and HTTP pipeline (retry.rs, api.rs) ----
    breaker,        \* CircuitBreaker: state, failure_count, last_failure_time
    metrics,        \* RetryMetrics
    callPc,         \* per caller: "idle", "running" (operation in flight), "sleeping",
                    \* "returned" (execute has returned, its result not yet dropped)
    attempt,        \* per caller: execute's loop variable
    wakeAt,         \* per caller: the end of the current sleep(delay)
    invoked,        \* per caller: invocations of the operation in the current call
    lastResponse,   \* per caller: what the transport returned to the last attempt
    httpCount,      \* per caller: HTTP responses the current call has received
    tracked,        \* per caller: rows the current call added to api_call_tracking
    result,         \* per caller: what the last execute call returned, << >> before
    callsBegun,     \* execute calls begun so far
    failedCalls,    \* execute calls that failed since the last one that succeeded
    lastFailedAt,   \* when the last execute call failed
    probe,          \* the caller whose call allow_request admitted from Open, while in flight
    probeResult,    \* how and when the last such call ended
    \* ---- rate limiter (rate_limiter.rs) ----
    tokens,         \* TokenBucket.tokens, in units of 1/TokenScale token
    last_refill,    \* TokenBucket.last_refill
    available_permits, \* the permits the Semaphore has left
    semWaiters,     \* the tasks queued in Semaphore::acquire_owned, oldest first
    current_window, \* WindowTracker.current_window: window_start, request_count
    rlPc,           \* per task: where it is in acquire_permit / get_rate_limit_status
    capturedNow,    \* per task: the local `now` of acquire / get_available_tokens
    rlWakeAt,       \* per task: the end of acquire_permit's sleep(wait_time)
    lastStatus,     \* the last RateLimitStatus returned, << >> before
    grants,         \* the instants at which acquire_permit got its token, in order
    lastExit,       \* how make_request_internal last returned, until the next request
    \* ---- OAuth2 state machine of RedditClient (lib.rs) ----
    auth_state,     \* RedditClient.auth_state
    nextToken,      \* the next access token the token endpoint issues
    lastOp,         \* the last RedditClient operation: what it returned and did
    lastCallback,   \* the arguments of that operation when it is handle_callback
    \* ---- RedditClient's read operations and their API client (lib.rs, api.rs) ----
    apiLog,         \* what the last read operation's RedditApiClient started with and did
    failedReads,    \* read operations whose API request failed, since the last success
    lastReadFailedAt, \* when the last of them failed
    rateStatus,     \* what get_rate_limit_status last returned, << >> before
    \* ---- the process and its store (request_queue.rs) ----
    restarts,       \* how many times the process was restarted over the same store
    storeError,     \* the store writes of the processor that failed, in order
    \* ---- usage dashboard (usage_dashboard.rs) ----
    response_times, \* api_call_tracking.response_time_ms as the query returns it
    percentiles,    \* the last call of calculate_percentiles: its values and what
                    \* it returned, << >> before
    \* ---- calculate_delay (retry.rs) ----
    delayCall,      \* the last call of calculate_delay: its config, attempt, drawn
                    \* jitter and what it returned, << >> before
    \* ---- API tracker (api_tracker.rs) ----
    windows,        \* table rate_limit_windows: window_start -> request_count
    alerts          \* table api_usage_alerts: the (alert_type, severity) pairs in it

queueVars == <<queue, requests, result_senders, rows, received, nextId, procPc,
               procReq, enqueueResult, enqPending, cancelResult, executions>>

retryVars == <<breaker, metrics, callPc, attempt, wakeAt, invoked, lastResponse,
               httpCount, tracked, result, callsBegun, failedCalls, lastFailedAt,
               probe, probeResult>>

rlVars == <<tokens, last_refill, available_permits, semWaiters, current_window,
            rlPc, capturedNow, rlWakeAt, lastStatus, grants, lastExit>>

authVars == <<auth_state, nextToken, lastOp, lastCallback>>

clientVars == <<apiLog, failedReads, lastReadFailedAt, rateStatus>>

faultVars == <<restarts, storeError>>

dashVars == <<response_times, percentiles>>

delayVars == <<delayCall>>

trackerVars == <<windows, alerts>>

vars == <<now, queueVars, retryVars, rlVars, authVars, clientVars, faultVars, dashVars, delayVars, trackerVars>>

\* what each component leaves alone
nonQueueVars == <<retryVars, rlVars, authVars, clientVars, faultVars, dashVars, delayVars, trackerVars>>
nonRetryVars == <<queueVars, rlVars, authVars, clientVars, faultVars, dashVars, delayVars, trackerVars>>
nonRlVars == <<queueVars, retryVars, authVars, clientVars, faultVars, dashVars, delayVars, trackerVars>>
nonAuthVars == <<queueVars, retryVars, rlVars, clientVars, faultVars, dashVars, delayVars, trackerVars>>
nonClientVars == <<queueVars, retryVars, rlVars, faultVars, dashVars, delayVars, trackerVars>>
nonDashVars == <<queueVars, retryVars, rlVars, authVars, clientVars, faultVars,
                 delayVars, trackerVars>>
nonDelayVars == <<queueVars, retryVars, rlVars, authVars, clientVars, faultVars,
                  dashVars, trackerVars>>
nonTrackerVars == <<queueVars, retryVars, rlVars, authVars, clientVars, faultVars,
                    dashVars, delayVars>>

None == "none"

Max(a, b) == IF a >= b THEN a ELSE b
Min(a, b) == IF a <= b THEN a ELSE b

RECURSIVE Pow(_, _)
Pow(b, e) == IF e = 0 THEN 1 ELSE b * Pow(b, e - 1)

(***************************************************************************)
(* Request queue.  Time unit: one minute.                                  *)
(***************************************************************************)
MaxRequests == 2        \* enqueue_request calls in a run
QMaxTime == 14          \* the queue's clock stops here
MaxQueueSize == 1       \* RequestQueue::new(pool, max_queue_size)
MaxRetries == 3         \* QueuedRequest.max_retries

Priorities == {-1, 0, 1}

\* std::cmp::Ordering of a.cmp(b) as -1 (Less), 0 (Equal), 1 (Greater)
CmpInt(a, b) == IF a < b THEN -1 ELSE IF a > b THEN 1 ELSE 0

\* impl Ord for PriorityRequest: other.priority.cmp(&self.priority), then
\* self.scheduled_for.cmp(&other.scheduled_for)
PriorityRequestCmp(self, other) ==
    IF CmpInt(other.priority, self.priority) # 0
    THEN CmpInt(other.priority, self.priority)
    ELSE CmpInt(self.scheduled_for, other.scheduled_for)

\* BinaryHeap::pop returns a greatest element under Ord (any one of them on a tie)
HeapPeekSet(h) == {r \in h : \A o \in h : PriorityRequestCmp(r, o) >= 0}

\* update_request_status: only executing, completed and failed are written;
\* every other status returns Ok(()) without touching the row
UpdateRequestStatus(t, id, status) ==
    IF status \in {"executing", "completed", "failed"} /\ id \in DOMAIN t
    THEN [t EXCEPT ![id].status = status]
    ELSE t

\* update_request_retry_info, had it written the retry count alone
UpdateRequestRetryCountOnly(t, id, rc, sched) ==
    IF id \in DOMAIN t
    THEN [t EXCEPT ![id].retry_count = rc]
    ELSE t

\* update_request_retry_info
UpdateRequestRetryInfo(t, id, rc, sched) ==
    IF id \in DOMAIN t
    THEN [t EXCEPT ![id].retry_count = rc, ![id].scheduled_for = sched]
    ELSE t

\* removal of a key from a map
MapRemove(m, id) == [k \in DOMAIN m \ {id} |-> m[k]]
\* insertion (or replacement) of a key
MapInsert(m, id, v) == [k \in DOMAIN m \cup {id} |-> IF k = id THEN v ELSE m[k]]

\* the status codes simulate_api_request can produce for a request
SimulatedStatus(req) ==
    IF req.nonexistent THEN {404}
    ELSE IF req.retry_count > 0 THEN {200}
    ELSE IF req.priority < 0 THEN {429, 200}
    ELSE {200}

InitQueue ==
    /\ queue = {}
    /\ requests = << >>
    /\ result_senders = {}
    /\ rows = << >>
    /\ received = << >>
    /\ nextId = 1
    /\ procPc = "idle"
    /\ procReq = None
    /\ enqueueResult = None
    /\ enqPending = {}
    /\ cancelResult = << >>
    /\ executions = << >>

\* enqueue_request(endpoint, .., priority, ..) up to the end of its size check,
\* which it makes under a read lock that it releases before it goes on
EnqueueRequest(priority, nonexistent) ==
    /\ nextId <= MaxRequests
    /\ nextId' = nextId + 1
    /\ IF Cardinality(queue) >= MaxQueueSize
       THEN /\ enqueueResult' = "RateLimited"
            /\ UNCHANGED enqPending
       ELSE /\ enqPending' = enqPending \cup
                   {[request_id |-> nextId, priority |-> priority,
                     nonexistent |-> nonexistent, scheduled_for |-> now,
                     retry_count |-> 0, max_retries |-> MaxRetries]}
            /\ UNCHANGED enqueueResult
    /\ UNCHANGED <<now, queue, requests, result_senders, rows, received, procPc,
                   procReq, cancelResult, executions>>
    /\ UNCHANGED nonQueueVars

\* the rest of enqueue_request: save_queued_request, then the push and the two
\* inserts under the write locks
EnqueueInsert(id) ==
    \E req \in enqPending :
    /\ req.request_id = id
    /\ enqPending' = enqPending \ {req}
    /\ rows' = MapInsert(rows, req.request_id,
                         [status |-> "queued", retry_count |-> 0,
                          scheduled_for |-> req.scheduled_for])
    /\ queue' = queue \cup {[request_id |-> req.request_id,
                             priority |-> req.priority,
                             scheduled_for |-> req.scheduled_for]}
    /\ requests' = MapInsert(requests, req.request_id, req)
    /\ result_senders' = result_senders \cup {req.request_id}
    /\ received' = MapInsert(received, req.request_id, << >>)
    /\ executions' = MapInsert(executions, req.request_id, 0)
    /\ enqueueResult' = "Ok"
    /\ UNCHANGED <<now, nextId, procPc, procReq, cancelResult>>
    /\ UNCHANGED nonQueueVars

\* process_next_request up to the first await of execute_request's simulated call
ProcessNextRequest ==
    /\ procPc = "idle"
    /\ queue # {}
    /\ \E top \in HeapPeekSet(queue) :
         IF top.scheduled_for > now
         THEN \* put it back and wait
              UNCHANGED <<queue, rows, procPc, procReq, executions>>
         ELSE /\ queue' = queue \ {top}
              /\ IF top.request_id \in DOMAIN requests
                 THEN /\ rows' = UpdateRequestStatus(rows, top.request_id, "executing")
                      /\ procPc' = "executing"
                      /\ procReq' = requests[top.request_id]
                      /\ executions' = [executions EXCEPT ![top.request_id] = @ + 1]
                 ELSE UNCHANGED <<rows, procPc, procReq, executions>>
    /\ UNCHANGED <<now, requests, result_senders, received, nextId, enqueueResult,
                   enqPending, cancelResult>>
    /\ UNCHANGED nonQueueVars

\* "Send result to waiting caller" at the end of execute_request
SendResult(rcv, senders, id, success) ==
    IF id \in senders THEN [rcv EXCEPT ![id] = Append(@, success)] ELSE rcv

\* the rest of execute_request: complete_request or handle_request_failure, then
\* the send
FinishExecution ==
    /\ procPc = "executing"
    /\ \E status \in SimulatedStatus(procReq) :
         LET id == procReq.request_id
             success == status < 400
         IN IF success
            THEN \* complete_request
                 /\ rows' = UpdateRequestStatus(rows, id, "completed")
                 /\ requests' = MapRemove(requests, id)
                 /\ result_senders' = result_senders \ {id}
                 /\ received' = SendResult(received, result_senders', id, TRUE)
                 /\ UNCHANGED queue
            ELSE \* handle_request_failure
                 LET rc == procReq.retry_count + 1 IN
                 IF rc <= procReq.max_retries
                 THEN LET retry_time == now + Pow(2, rc) IN
                      /\ queue' = queue \cup {[request_id |-> id,
                                               priority |-> procReq.priority,
                                               scheduled_for |-> retry_time]}
                      /\ requests' = MapInsert(requests, id,
                             [procReq EXCEPT !.retry_count = rc,
                                             !.scheduled_for = retry_time])
                      /\ rows' = UpdateRequestRetryInfo(rows, id, rc, retry_time)
                      /\ received' = SendResult(received, result_senders, id, FALSE)
                      /\ UNCHANGED result_senders
                 ELSE /\ rows' = UpdateRequestStatus(rows, id, "failed")
                      /\ requests' = MapRemove(requests, id)
                      /\ result_senders' = result_senders \ {id}
                      /\ received' = SendResult(received, result_senders', id, FALSE)
                      /\ UNCHANGED queue
    /\ procPc' = "idle"
    /\ procReq' = None
    /\ UNCHANGED <<now, nextId, enqueueResult, enqPending, cancelResult, executions>>
    /\ UNCHANGED nonQueueVars

\* simulate_api_request: 50 + (request.priority * 10) as u64 overflows for a
\* negative priority; a build with overflow checks panics there and the
\* processor task ends, a build without them wraps and goes on
ProcessorPanics ==
    /\ procPc = "executing"
    /\ procReq.priority < 0
    /\ procPc' = "panicked"
    /\ UNCHANGED <<now, queue, requests, result_senders, rows, received, nextId,
                   procReq, enqueueResult, enqPending, cancelResult, executions>>
    /\ UNCHANGED nonQueueVars

\* cancel_request(request_id)
CancelRequest(id) ==
    /\ queue' = {r \in queue : r.request_id # id}
    /\ requests' = MapRemove(requests, id)
    /\ result_senders' = result_senders \ {id}
    /\ rows' = IF id \in DOMAIN requests
               THEN UpdateRequestStatus(rows, id, "cancelled")
               ELSE rows
    /\ cancelResult' = << [request_id |-> id, found |-> id \in DOMAIN requests] >>
    /\ UNCHANGED <<now, received, nextId, procPc, procReq, enqueueResult, enqPending,
                   executions>>
    /\ UNCHANGED nonQueueVars

\* time passes, up to the next instant at which a heap entry becomes due
QueueTick ==
    /\ \E r \in queue :
         /\ r.scheduled_for > now
         /\ r.scheduled_for <= QMaxTime
         /\ now' = r.scheduled_for
    /\ UNCHANGED <<queueVars, nonQueueVars>>

NextQueue ==
    \/ \E p \in Priorities, ne \in BOOLEAN : EnqueueRequest(p, ne)
    \/ \E id \in 1..MaxRequests : EnqueueInsert(id)
    \/ ProcessNextRequest
    \/ FinishExecution
    \/ ProcessorPanics
    \/ \E id \in 1..MaxRequests : CancelRequest(id)
    \/ QueueTick

(***************************************************************************)
(* The request queue with its processor running and time advancing.        *)
(***************************************************************************)
QLiveMaxTime == 44      \* the clock of the running queue stops here

\* time passes, up to the next instant at which a heap entry becomes due
QueueTickLive ==
    /\ \E r \in queue :
         /\ r.scheduled_for > now
         /\ r.scheduled_for <= QLiveMaxTime
         /\ now' = r.scheduled_for
    /\ UNCHANGED <<queueVars, nonQueueVars>>

NextQueueLive ==
    \/ \E p \in Priorities, ne \in BOOLEAN : EnqueueRequest(p, ne)
    \/ \E id \in 1..MaxRequests : EnqueueInsert(id)
    \/ ProcessNextRequest
    \/ FinishExecution
    \/ \E id \in 1..MaxRequests : CancelRequest(id)
    \/ QueueTickLive

\* start_processing loops for ever, every call in flight goes on, and time
\* advances
FairnessQueue ==
    /\ WF_vars(ProcessNextRequest)
    /\ WF_vars(FinishExecution)
    /\ WF_vars(\E id \in 1..MaxRequests : EnqueueInsert(id))
    /\ WF_vars(QueueTickLive)

(***************************************************************************)
(* The request queue across a restart of the process.                      *)
(***************************************************************************)
MaxRestarts == 1        \* restarts in a run

InitFaults ==
    /\ restarts = 0
    /\ storeError = << >>

\* the process ends and a new one calls RequestQueue::new(pool, max_queue_size)
\* over the same database and spawns start_processing: the table is as it was,
\* the heap and the two maps are new and empty, and nothing reads the table
\* into them; the calls that were in flight are gone with the old process
Restart ==
    /\ restarts < MaxRestarts
    /\ restarts' = restarts + 1
    /\ queue' = {}
    /\ requests' = << >>
    /\ result_senders' = {}
    /\ enqPending' = {}
    /\ procPc' = "idle"
    /\ procReq' = None
    /\ enqueueResult' = None
    /\ cancelResult' = << >>
    /\ UNCHANGED <<now, rows, received, nextId, executions, storeError>>
    /\ UNCHANGED <<retryVars, rlVars, authVars, clientVars, dashVars, delayVars, trackerVars>>

(***************************************************************************)
(* The request queue over a store whose writes can fail.                   *)
(***************************************************************************)
MaxStoreErrors == 1     \* failed store writes in a run

\* a store write for request id failed; write names the statement
StoreWriteFailed(id, write) ==
    /\ Len(storeError) < MaxStoreErrors
    /\ storeError' = Append(storeError, [request_id |-> id, write |-> write])

\* process_next_request when update_request_status(id, "executing") fails:
\* the entry has been popped, execute_request returns the error through `?`
\* and start_processing logs it
ProcessNextRequestStoreFails ==
    /\ procPc = "idle"
    /\ \E top \in HeapPeekSet(queue) :
         /\ top.scheduled_for <= now
         /\ top.request_id \in DOMAIN requests
         /\ queue' = queue \ {top}
         /\ StoreWriteFailed(top.request_id, "executing")
    /\ UNCHANGED <<now, requests, result_senders, rows, received, nextId, procPc,
                   procReq, enqueueResult, enqPending, cancelResult, executions,
                   restarts>>
    /\ UNCHANGED <<retryVars, rlVars, authVars, clientVars, dashVars, delayVars, trackerVars>>

\* the rest of execute_request when the store write of complete_request or
\* handle_request_failure fails: the `?` returns before the removal from the
\* maps (complete_request, and the failure beyond max_retries) or after the
\* re-push (retry), and in every case before the result is sent
FinishExecutionStoreFails ==
    /\ procPc = "executing"
    /\ \E status \in SimulatedStatus(procReq) :
         LET id == procReq.request_id
             rc == procReq.retry_count + 1
             retry_time == now + Pow(2, rc)
         IN IF status < 400
            THEN /\ StoreWriteFailed(id, "completed")
                 /\ UNCHANGED <<queue, requests>>
            ELSE IF rc <= procReq.max_retries
            THEN /\ queue' = queue \cup {[request_id |-> id,
                                          priority |-> procReq.priority,
                                          scheduled_for |-> retry_time]}
                 /\ requests' = MapInsert(requests, id,
                        [procReq EXCEPT !.retry_count = rc,
                                        !.scheduled_for = retry_time])
                 /\ StoreWriteFailed(id, "retry_info")
            ELSE /\ StoreWriteFailed(id, "failed")
                 /\ UNCHANGED <<queue, requests>>
    /\ procPc' = "idle"
    /\ procReq' = None
    /\ UNCHANGED <<now, result_senders, rows, received, nextId, enqueueResult,
                   enqPending, cancelResult, executions, restarts>>
    /\ UNCHANGED <<retryVars, rlVars, authVars, clientVars, dashVars, delayVars, trackerVars>>

NextQueueStoreFaults ==
    \/ \E p \in Priorities, ne \in BOOLEAN : EnqueueRequest(p, ne)
    \/ \E id \in 1..MaxRequests : EnqueueInsert(id)
    \/ ProcessNextRequest
    \/ FinishExecution
    \/ ProcessorPanics
    \/ \E id \in 1..MaxRequests : CancelRequest(id)
    \/ QueueTick
    \/ ProcessNextRequestStoreFails
    \/ FinishExecutionStoreFails

NextQueueRestart ==
    \/ \E p \in Priorities, ne \in BOOLEAN : EnqueueRequest(p, ne)
    \/ \E id \in 1..MaxRequests : EnqueueInsert(id)
    \/ ProcessNextRequest
    \/ FinishExecution
    \/ ProcessorPanics
    \/ \E id \in 1..MaxRequests : CancelRequest(id)
    \/ QueueTick
    \/ Restart


(***************************************************************************)
(* Retry executor, circuit breaker and the HTTP pipeline it wraps.         *)
(* Time unit: one millisecond.                                             *)
(***************************************************************************)
MaxCalls == 4           \* execute calls in a run
RMaxTime == 120000      \* the executor's clock stops here

\* the RetryConfig the executor is built with: max_attempts and
\* failure_threshold as in test_retry_executor_circuit_breaker, jitter_factor
\* 0.0 as in test_exponential_backoff_calculation, recovery_timeout 60 s as in Default; the base
\* and maximum delay are 30 s, so that every sleep ends on a 30-second instant
Config ==
    [max_attempts |-> 2,
     base_delay_ms |-> 30000,
     max_delay_ms |-> 30000,
     backoff_multiplier |-> 2,
     jitter_percent |-> 0,
     failure_threshold |-> 2,
     recovery_timeout_ms |-> 60000]

\* RetryConfig::reddit(), the configuration RedditApiClient::new installs
RedditConfig ==
    [max_attempts |-> 3,
     base_delay_ms |-> 2000,
     max_delay_ms |-> 60000,
     backoff_multiplier |-> 2,
     jitter_percent |-> 20,
     failure_threshold |-> 3,
     recovery_timeout_ms |-> 120000]

\* the tasks that call execute on the one executor, concurrently
Callers == {1, 2}

\* whether RedditApiClient.api_tracker is Some (with_api_tracker)
TrackerAttached == TRUE

\* what the transport can hand back to one attempt: an HTTP response (a 429 with
\* or without a Retry-After header, in seconds) or a transport error
HttpStatuses == {200, 400, 401, 403, 404, 429, 500}
RetryAfterHeaders == {<< >>, <<30>>}
TransportErrors == {"timeout", "connect", "other"}
Transported ==
    [kind : {"http"}, status : HttpStatuses \ {429}, retry_after : {<< >>}]
    \cup [kind : {"http"}, status : {429}, retry_after : RetryAfterHeaders]
    \cup [kind : {"transport"}, error : TransportErrors]

\* make_request_internal: the classification of what the transport returned.
\* Ok carries the response; Err carries the CoreError
ClassifyResponse(r) ==
    IF r.kind = "transport"
    THEN IF r.error = "timeout"
         THEN [ok |-> FALSE, error |-> [class |-> "RequestTimeout"]]
         ELSE [ok |-> FALSE, error |-> [class |-> "Network",
                                        is_connect |-> r.error = "connect"]]
    ELSE IF r.status >= 200 /\ r.status < 300 THEN [ok |-> TRUE, status |-> r.status]
    ELSE IF r.status = 429
         THEN [ok |-> FALSE,
               error |-> [class |-> "RateLimitExceeded",
                          retry_after |-> IF r.retry_after = << >> THEN 60
                                          ELSE r.retry_after[1]]]
    ELSE IF r.status = 401 THEN [ok |-> FALSE, error |-> [class |-> "InvalidToken"]]
    ELSE IF r.status = 403 THEN [ok |-> FALSE, error |-> [class |-> "Forbidden"]]
    ELSE IF r.status = 404 THEN [ok |-> FALSE, error |-> [class |-> "InvalidResponse"]]
    ELSE IF r.status >= 500 /\ r.status < 600
         THEN [ok |-> FALSE, error |-> [class |-> "ServerError", status |-> r.status]]
    ELSE [ok |-> TRUE, status |-> r.status]

\* make_request_internal: the rows its tracker.record_api_call adds to
\* api_call_tracking for one attempt.  Only the path that reaches "Record API call
\* in tracker" records; every `return Err` above it leaves before
TrackedRows(r) ==
    IF TrackerAttached /\ ClassifyResponse(r).ok
    THEN << [status |-> r.status, rate_limited |-> FALSE] >>
    ELSE << >>

\* get_retry_strategy, had it treated an invalid token as transient
GetRetryStrategyRetriesAuth(e) ==
    CASE e.class = "RateLimitExceeded" ->
            [kind |-> "RetryWithDelay", delay |-> e.retry_after * 1000]
      [] e.class \in {"ServerError", "RequestTimeout", "InvalidResponse",
                      "EndpointUnavailable", "InvalidToken"} -> [kind |-> "Retry"]
      [] e.class \in {"AuthenticationFailed", "Forbidden",
                      "SubredditNotFound", "PostNotFound"} -> [kind |-> "NoRetry"]
      [] e.class = "Network" ->
            IF e.is_connect THEN [kind |-> "Retry"] ELSE [kind |-> "NoRetry"]
      [] OTHER -> [kind |-> "NoRetry"]

\* get_retry_strategy
GetRetryStrategy(e) ==
    CASE e.class = "RateLimitExceeded" ->
            [kind |-> "RetryWithDelay", delay |-> e.retry_after * 1000]
      [] e.class \in {"ServerError", "RequestTimeout", "InvalidResponse",
                      "EndpointUnavailable"} -> [kind |-> "Retry"]
      [] e.class \in {"AuthenticationFailed", "InvalidToken", "Forbidden",
                      "SubredditNotFound", "PostNotFound"} -> [kind |-> "NoRetry"]
      [] e.class = "Network" ->
            IF e.is_connect THEN [kind |-> "Retry"] ELSE [kind |-> "NoRetry"]
      [] OTHER -> [kind |-> "NoRetry"]

\* calculate_delay: the exponential delay before jitter
ExponentialDelay(cfg, att) ==
    IF att = 0 THEN cfg.base_delay_ms
    ELSE Min(cfg.base_delay_ms * Pow(cfg.backoff_multiplier, att), cfg.max_delay_ms)

\* calculate_delay, had its jitter ranged over the whole exponential delay
JitterRangeWholeDelay(cfg, att) ==
    IF cfg.jitter_percent = 0 THEN 0 ELSE ExponentialDelay(cfg, att)

\* calculate_delay: the range fastrand::u64(0..=jitter_range) draws from
JitterRange(cfg, att) == (ExponentialDelay(cfg, att) * cfg.jitter_percent) \div 100

\* calculate_delay, for a drawn jitter
CalculateDelay(cfg, att, jitter) ==
    Min(ExponentialDelay(cfg, att) + jitter, cfg.max_delay_ms)

\* CircuitBreaker::allow_request: the answer
AllowRequest(b, t) ==
    CASE b.state = "Closed" -> TRUE
      [] b.state = "Open" ->
            /\ b.last_failure_time # << >>
            /\ t - b.last_failure_time[1] >= Config.recovery_timeout_ms
      [] b.state = "HalfOpen" -> TRUE

\* CircuitBreaker::allow_request: the breaker it leaves
AfterAllowRequest(b, t) ==
    IF b.state = "Open" /\ AllowRequest(b, t)
    THEN [b EXCEPT !.state = "HalfOpen"]
    ELSE b

\* CircuitBreaker::record_success
RecordSuccess(b) ==
    IF b.state = "HalfOpen"
    THEN [state |-> "Closed", failure_count |-> 0, last_failure_time |-> << >>]
    ELSE [b EXCEPT !.failure_count = 0]

\* record_failure, had it opened the breaker one failure late
RecordFailureLate(b, t) ==
    LET n == b.failure_count + 1 IN
    [state |-> CASE b.state = "Closed" ->
                       IF n > Config.failure_threshold THEN "Open" ELSE "Closed"
                 [] b.state = "HalfOpen" -> "Open"
                 [] b.state = "Open" -> "Open",
     failure_count |-> n,
     last_failure_time |-> <<t>>]

\* CircuitBreaker::record_failure
RecordFailure(b, t) ==
    LET n == b.failure_count + 1 IN
    [state |-> CASE b.state = "Closed" ->
                       IF n >= Config.failure_threshold THEN "Open" ELSE "Closed"
                 [] b.state = "HalfOpen" -> "Open"
                 [] b.state = "Open" -> "Open",
     failure_count |-> n,
     last_failure_time |-> <<t>>]

InitRetry ==
    /\ breaker = [state |-> "Closed", failure_count |-> 0, last_failure_time |-> << >>]
    /\ metrics = [total_retries |-> 0, successful_retries |-> 0,
                  failed_retries |-> 0, circuit_breaker_trips |-> 0]
    /\ callPc = [c \in Callers |-> "idle"]
    /\ attempt = [c \in Callers |-> 0]
    /\ wakeAt = [c \in Callers |-> 0]
    /\ invoked = [c \in Callers |-> 0]
    /\ lastResponse = [c \in Callers |-> << >>]
    /\ httpCount = [c \in Callers |-> 0]
    /\ tracked = [c \in Callers |-> << >>]
    /\ result = [c \in Callers |-> << >>]
    /\ callsBegun = 0
    /\ failedCalls = 0
    /\ lastFailedAt = << >>
    /\ probe = << >>
    /\ probeResult = << >>

\* execute: the circuit breaker check, and the start of attempt 0
ExecuteBegin(c) ==
    /\ callPc[c] = "idle"
    /\ callsBegun < MaxCalls
    /\ callsBegun' = callsBegun + 1
    /\ breaker' = AfterAllowRequest(breaker, now)
    /\ probe' = IF breaker.state = "Open" /\ AllowRequest(breaker, now)
                THEN <<c>> ELSE probe
    /\ probeResult' = IF breaker.state = "Open" /\ AllowRequest(breaker, now)
                      THEN << >> ELSE probeResult
    /\ attempt' = [attempt EXCEPT ![c] = 0]
    /\ lastResponse' = [lastResponse EXCEPT ![c] = << >>]
    /\ httpCount' = [httpCount EXCEPT ![c] = 0]
    /\ tracked' = [tracked EXCEPT ![c] = << >>]
    /\ IF AllowRequest(breaker, now)
       THEN /\ callPc' = [callPc EXCEPT ![c] = "running"]
            /\ invoked' = [invoked EXCEPT ![c] = 1]
            /\ result' = [result EXCEPT ![c] = << >>]
            /\ UNCHANGED metrics
       ELSE /\ metrics' = [metrics EXCEPT !.circuit_breaker_trips = @ + 1]
            /\ result' = [result EXCEPT ![c] =
                            << [ok |-> FALSE, class |-> "Internal",
                                message |-> "Circuit breaker is open"] >>]
            /\ invoked' = [invoked EXCEPT ![c] = 0]
            /\ callPc' = [callPc EXCEPT ![c] = "returned"]
    /\ UNCHANGED <<now, wakeAt, failedCalls, lastFailedAt, nonRetryVars>>

\* execute, had its loop gone on to another attempt after an Ok(result)
ExecuteSucceedsAndGoesOn(c, value) ==
    /\ breaker' = RecordSuccess(breaker)
    /\ UNCHANGED metrics
    /\ result' = [result EXCEPT ![c] =
                    << [ok |-> TRUE, attempt |-> attempt[c], status |-> value] >>]
    /\ callPc' = [callPc EXCEPT ![c] = "sleeping"]
    /\ wakeAt' = [wakeAt EXCEPT ![c] = now]
    /\ failedCalls' = 0
    /\ probe' = IF probe = <<c>> THEN << >> ELSE probe
    /\ probeResult' = IF probe = <<c>> THEN << [ok |-> TRUE, at |-> now, found |-> breaker.state,
                                trips |-> metrics.circuit_breaker_trips] >>
                      ELSE probeResult
    /\ UNCHANGED lastFailedAt

\* execute, had it counted a success on attempt 0 as a successful retry
ExecuteSucceedsCountsFirstAttempt(c, value) ==
    /\ breaker' = RecordSuccess(breaker)
    /\ metrics' = [metrics EXCEPT !.total_retries = @ + attempt[c],
                                  !.successful_retries = @ + 1]
    /\ result' = [result EXCEPT ![c] =
                    << [ok |-> TRUE, attempt |-> attempt[c], status |-> value] >>]
    /\ callPc' = [callPc EXCEPT ![c] = "returned"]
    /\ failedCalls' = 0
    /\ probe' = IF probe = <<c>> THEN << >> ELSE probe
    /\ probeResult' = IF probe = <<c>> THEN << [ok |-> TRUE, at |-> now, found |-> breaker.state,
                                trips |-> metrics.circuit_breaker_trips] >>
                      ELSE probeResult
    /\ UNCHANGED <<wakeAt, lastFailedAt>>

\* execute: Ok(result) => record_success, the retry metrics, return Ok(result)
ExecuteSucceeds(c, value) ==
    /\ breaker' = RecordSuccess(breaker)
    /\ metrics' = IF attempt[c] > 0
                  THEN [metrics EXCEPT !.total_retries = @ + attempt[c],
                                       !.successful_retries = @ + 1]
                  ELSE metrics
    /\ result' = [result EXCEPT ![c] =
                    << [ok |-> TRUE, attempt |-> attempt[c], status |-> value] >>]
    /\ callPc' = [callPc EXCEPT ![c] = "returned"]
    /\ failedCalls' = 0
    /\ probe' = IF probe = <<c>> THEN << >> ELSE probe
    /\ probeResult' = IF probe = <<c>> THEN << [ok |-> TRUE, at |-> now, found |-> breaker.state,
                                trips |-> metrics.circuit_breaker_trips] >>
                      ELSE probeResult
    /\ UNCHANGED <<wakeAt, lastFailedAt>>

\* execute: "All retries failed"
ExecuteFails(c, e) ==
    /\ breaker' = RecordFailure(breaker, now)
    /\ metrics' = [metrics EXCEPT !.failed_retries = @ + 1]
    /\ result' = [result EXCEPT ![c] =
                    << [ok |-> FALSE, class |-> "Internal", message |-> e] >>]
    /\ callPc' = [callPc EXCEPT ![c] = "returned"]
    /\ failedCalls' = failedCalls + 1
    /\ lastFailedAt' = <<now>>
    /\ probe' = IF probe = <<c>> THEN << >> ELSE probe
    /\ probeResult' = IF probe = <<c>> THEN << [ok |-> FALSE, at |-> now, found |-> breaker.state,
                                trips |-> metrics.circuit_breaker_trips] >>
                      ELSE probeResult
    /\ UNCHANGED wakeAt

\* execute: sleep(delay) before the next attempt
ExecuteSleeps(c, delay) ==
    /\ callPc' = [callPc EXCEPT ![c] = "sleeping"]
    /\ wakeAt' = [wakeAt EXCEPT ![c] = now + delay]
    /\ UNCHANGED <<breaker, metrics, result, failedCalls, lastFailedAt, probe,
                   probeResult>>

\* one attempt's operation().await returns: make_request_internal on what the
\* transport returned, then the match in execute's loop
OperationReturns(c, r) ==
    /\ callPc[c] = "running"
    /\ lastResponse' = [lastResponse EXCEPT ![c] = <<r>>]
    /\ httpCount' = [httpCount EXCEPT ![c] = IF r.kind = "http" THEN @ + 1 ELSE @]
    /\ tracked' = [tracked EXCEPT ![c] = @ \o TrackedRows(r)]
    /\ LET out == ClassifyResponse(r)
           should_retry == attempt[c] + 1 < Config.max_attempts
       IN IF out.ok
          THEN ExecuteSucceeds(c, out.status)
          ELSE LET strategy == GetRetryStrategy(out.error) IN
               CASE strategy.kind = "NoRetry" -> ExecuteFails(c, out.error.class)
                 [] strategy.kind = "Retry" /\ should_retry ->
                      \E jitter \in {0, JitterRange(Config, attempt[c])} :
                         ExecuteSleeps(c, CalculateDelay(Config, attempt[c], jitter))
                 [] strategy.kind = "RetryWithDelay" /\ should_retry ->
                      ExecuteSleeps(c, strategy.delay)
                 [] OTHER -> ExecuteFails(c, out.error.class)
    /\ UNCHANGED <<now, attempt, invoked, callsBegun, nonRetryVars>>

\* the sleep is over: the loop's next attempt invokes the operation again
NextAttempt(c) ==
    /\ callPc[c] = "sleeping"
    /\ now >= wakeAt[c]
    /\ attempt' = [attempt EXCEPT ![c] = @ + 1]
    /\ invoked' = [invoked EXCEPT ![c] = @ + 1]
    /\ callPc' = [callPc EXCEPT ![c] = "running"]
    /\ UNCHANGED <<now, breaker, metrics, wakeAt, lastResponse, httpCount, tracked, result,
                   callsBegun, failedCalls, lastFailedAt, probe, probeResult,
                   nonRetryVars>>

\* the caller drops the result of its call and is ready for the next one
CallerDone(c) ==
    /\ callPc[c] = "returned"
    /\ callPc' = [callPc EXCEPT ![c] = "idle"]
    /\ attempt' = [attempt EXCEPT ![c] = 0]
    /\ invoked' = [invoked EXCEPT ![c] = 0]
    /\ lastResponse' = [lastResponse EXCEPT ![c] = << >>]
    /\ httpCount' = [httpCount EXCEPT ![c] = 0]
    /\ tracked' = [tracked EXCEPT ![c] = << >>]
    /\ result' = [result EXCEPT ![c] = << >>]
    /\ wakeAt' = [wakeAt EXCEPT ![c] = 0]
    /\ UNCHANGED <<now, breaker, metrics, callsBegun, failedCalls, lastFailedAt,
                   probe, probeResult, nonRetryVars>>

\* check_subreddit_access: the match on what make_request_with_context (the
\* retry executor around make_request_internal) returned
CheckSubredditAccess(res) ==
    IF res.ok THEN [ok |-> TRUE, value |-> TRUE]
    ELSE IF res.class \in {"Forbidden", "SubredditNotFound"}
         THEN [ok |-> TRUE, value |-> FALSE]
         ELSE [ok |-> FALSE, error |-> res]

\* the instants at which something can change: the end of a sleep, and the
\* first instant at which an open breaker admits a probe
RetryInstants ==
    {wakeAt[c] : c \in {d \in Callers : callPc[d] = "sleeping"}}
    \cup (IF breaker.last_failure_time = << >> THEN {}
          ELSE {breaker.last_failure_time[1] + Config.recovery_timeout_ms})

\* time passes
RetryTick ==
    /\ \E t \in RetryInstants :
         /\ t > now
         /\ t <= RMaxTime
         /\ now' = t
    /\ UNCHANGED <<retryVars, nonRetryVars>>

NextRetry ==
    \/ \E c \in Callers : ExecuteBegin(c)
    \/ \E c \in Callers, r \in Transported : OperationReturns(c, r)
    \/ \E c \in Callers : NextAttempt(c)
    \/ \E c \in Callers : CallerDone(c)
    \/ RetryTick

(***************************************************************************)
(* Rate limiter: token bucket, semaphore and window tracker.               *)
(* Time unit: one second.                                                  *)
(***************************************************************************)
MaxPermits == 5         \* acquire_permit calls in a run
RLMaxTime == 4          \* the rate limiter's clock stops here

\* the RateLimitConfig the limiter is built with; time_window in seconds
RateLimitConfig == [max_requests |-> 2, time_window |-> 4, burst_allowance |-> 1]

\* the tasks that share the one RateLimiter: those that call acquire_permit and
\* those that call get_rate_limit_status
Acquirers == {1, 2}
StatusCallers == {3}
RLTasks == Acquirers \cup StatusCallers

\* tokens are counted in units of 1/TokenScale token, so that refill_rate
\* (max_requests / time_window tokens per second) is max_requests units per
\* second and every token count the bucket can hold is a whole number of units
TokenScale == RateLimitConfig.time_window

\* TokenBucket::new: capacity and refill_rate
Capacity == RateLimitConfig.burst_allowance * TokenScale
RefillRate == RateLimitConfig.max_requests

\* Instant::duration_since: zero when `earlier` is later than self
DurationSince(t, earlier) == IF t >= earlier THEN t - earlier ELSE 0

\* acquire / get_available_tokens: the token count after the refill
Refill(tok, last, t) == Min(tok + DurationSince(t, last) * RefillRate, Capacity)

\* the check of acquire, had it asked only for a positive token count
HasSomeTokens(tok, needed) == tok > 0

\* acquire: *tokens >= tokens_needed
HasTokens(tok, needed) == tok >= needed

\* acquire: wait_time, in seconds (a whole number for the token counts the
\* bucket can hold when max_requests divides time_window)
WaitTime(tok, needed) == (needed - tok + RefillRate - 1) \div RefillRate

\* WindowTracker::record_request, with ensure_current_window
RecordRequest(w, t) ==
    LET cur == IF DurationSince(t, w.window_start) >= RateLimitConfig.time_window
               THEN [window_start |-> t, request_count |-> 0]
               ELSE w
    IN [cur EXCEPT !.request_count = @ + 1]

InitRL ==
    /\ tokens = Capacity
    /\ last_refill = 0
    /\ available_permits = RateLimitConfig.burst_allowance
    /\ semWaiters = << >>
    /\ current_window = [window_start |-> 0, request_count |-> 0]
    /\ rlPc = [t \in RLTasks |-> "idle"]
    /\ capturedNow = [t \in RLTasks |-> 0]
    /\ rlWakeAt = [t \in RLTasks |-> 0]
    /\ lastStatus = << >>
    /\ grants = << >>
    /\ lastExit = << >>

\* acquire_permit: semaphore.acquire_owned().await; the task gets a permit at
\* once when one is left and nobody is queued, and queues otherwise
AcquirePermitBegin(t) ==
    /\ rlPc[t] = "idle"
    /\ Len(grants) + Cardinality({u \in RLTasks : rlPc[u] \notin {"idle", "holding",
                                   "status"}}) < MaxPermits
    /\ IF available_permits > 0 /\ semWaiters = << >>
       THEN /\ available_permits' = available_permits - 1
            /\ rlPc' = [rlPc EXCEPT ![t] = "loop"]
            /\ UNCHANGED semWaiters
       ELSE /\ semWaiters' = Append(semWaiters, t)
            /\ rlPc' = [rlPc EXCEPT ![t] = "semaphore"]
            /\ UNCHANGED available_permits
    /\ lastExit' = << >>
    /\ UNCHANGED <<now, tokens, last_refill, current_window, capturedNow, rlWakeAt,
                   lastStatus, grants, nonRlVars>>

\* TokenBucket::acquire: let now = Instant::now(), taken before the locks; the
\* task comes from the top of acquire_permit's loop or from its sleep
AcquireCapturesNow(t) ==
    /\ \/ rlPc[t] = "loop"
       \/ rlPc[t] = "sleeping" /\ now >= rlWakeAt[t]
    /\ capturedNow' = [capturedNow EXCEPT ![t] = now]
    /\ rlWakeAt' = [rlWakeAt EXCEPT ![t] = 0]
    /\ rlPc' = [rlPc EXCEPT ![t] = "captured"]
    /\ UNCHANGED <<now, tokens, last_refill, available_permits, semWaiters,
                   current_window, lastStatus, grants, lastExit, nonRlVars>>

\* TokenBucket::acquire: the refill block, under both locks
AcquireRefills(t) ==
    /\ rlPc[t] = "captured"
    /\ tokens' = Refill(tokens, last_refill, capturedNow[t])
    /\ last_refill' = capturedNow[t]
    /\ capturedNow' = [capturedNow EXCEPT ![t] = 0]
    /\ rlPc' = [rlPc EXCEPT ![t] = "refilled"]
    /\ UNCHANGED <<now, available_permits, semWaiters, current_window, rlWakeAt,
                   lastStatus, grants, lastExit, nonRlVars>>

\* TokenBucket::acquire(1.0): the check under the tokens lock, and what
\* acquire_permit does with the answer: record the request and return the
\* permit, or sleep(wait_time) and loop
AcquireChecks(t) ==
    /\ rlPc[t] = "refilled"
    /\ IF HasTokens(tokens, TokenScale)
       THEN /\ tokens' = tokens - TokenScale
            /\ current_window' = RecordRequest(current_window, now)
            /\ grants' = Append(grants, now)
            /\ rlPc' = [rlPc EXCEPT ![t] = "holding"]
            /\ UNCHANGED rlWakeAt
       ELSE /\ rlWakeAt' = [rlWakeAt EXCEPT ![t] = now + WaitTime(tokens, TokenScale)]
            /\ rlPc' = [rlPc EXCEPT ![t] = "sleeping"]
            /\ UNCHANGED <<tokens, current_window, grants>>
    /\ UNCHANGED <<now, last_refill, available_permits, semWaiters, capturedNow,
                   lastStatus, lastExit, nonRlVars>>

\* the RateLimitPermit is dropped: its semaphore permit goes to the oldest
\* queued task, or back to the semaphore
DropPermit(t) ==
    /\ rlPc[t] = "holding"
    /\ IF semWaiters # << >>
       THEN /\ rlPc' = [rlPc EXCEPT ![t] = "idle", ![Head(semWaiters)] = "loop"]
            /\ semWaiters' = Tail(semWaiters)
            /\ UNCHANGED available_permits
       ELSE /\ rlPc' = [rlPc EXCEPT ![t] = "idle"]
            /\ available_permits' = available_permits + 1
            /\ UNCHANGED semWaiters
    /\ UNCHANGED <<now, tokens, last_refill, current_window, capturedNow, rlWakeAt,
                   lastStatus, grants, nonRlVars>>

\* how one attempt of make_request_internal ends: the class of the error it
\* returns, or "Ok"
ExitPath(r) ==
    IF ClassifyResponse(r).ok THEN "Ok" ELSE ClassifyResponse(r).error.class

\* make_request_internal, had its early error returns kept the permit
\* (mem::forget) instead of dropping it
PipelineExitsLeaking(t, r) ==
    /\ rlPc[t] = "holding"
    /\ lastExit' = <<ExitPath(r)>>
    /\ IF ClassifyResponse(r).ok
       THEN DropPermit(t)
       ELSE /\ rlPc' = [rlPc EXCEPT ![t] = "idle"]
            /\ UNCHANGED <<now, tokens, last_refill, available_permits, semWaiters,
                           current_window, capturedNow, rlWakeAt, lastStatus,
                           grants, nonRlVars>>

\* make_request_internal after acquire_permit: the transport returns r, and
\* on each of its return statements the local `permit` goes out of scope
PipelineExits(t, r) ==
    /\ DropPermit(t)
    /\ lastExit' = <<ExitPath(r)>>

\* get_rate_limit_status -> get_available_tokens: let now = Instant::now(),
\* taken before the locks
StatusCapturesNow(t) ==
    /\ rlPc[t] = "idle"
    /\ capturedNow' = [capturedNow EXCEPT ![t] = now]
    /\ rlPc' = [rlPc EXCEPT ![t] = "status"]
    /\ UNCHANGED <<now, tokens, last_refill, available_permits, semWaiters,
                   current_window, rlWakeAt, lastStatus, grants,
                   lastExit, nonRlVars>>

\* get_available_tokens under both locks, and the RateLimitStatus built from it
StatusReturns(t) ==
    /\ rlPc[t] = "status"
    /\ tokens' = Refill(tokens, last_refill, capturedNow[t])
    /\ last_refill' = capturedNow[t]
    /\ lastStatus' = << [available_tokens |-> tokens' \div TokenScale,
                         max_tokens |-> RateLimitConfig.burst_allowance,
                         available_permits |-> available_permits,
                         requests_per_minute |-> RateLimitConfig.max_requests,
                         current_window_requests |-> current_window.request_count] >>
    /\ capturedNow' = [capturedNow EXCEPT ![t] = 0]
    /\ rlPc' = [rlPc EXCEPT ![t] = "idle"]
    /\ UNCHANGED <<now, available_permits, semWaiters, current_window, rlWakeAt,
                   grants, lastExit, nonRlVars>>

\* a second passes
RLTick ==
    /\ now < RLMaxTime
    /\ now' = now + 1
    /\ UNCHANGED <<rlVars, nonRlVars>>

NextRL ==
    \/ \E t \in Acquirers : AcquirePermitBegin(t)
    \/ \E t \in Acquirers : AcquireCapturesNow(t)
    \/ \E t \in Acquirers : AcquireRefills(t)
    \/ \E t \in Acquirers : AcquireChecks(t)
    \/ \E t \in Acquirers, r \in Transported : PipelineExits(t, r)
    \/ \E t \in StatusCallers : StatusCapturesNow(t)
    \/ \E t \in StatusCallers : StatusReturns(t)
    \/ RLTick

(***************************************************************************)
(* OAuth2 state machine of RedditClient.  Time unit: one second.  Every    *)
(* operation takes &mut self, so operations of one client do not overlap.  *)
(***************************************************************************)
MaxTokens == 3          \* access tokens the token endpoint issues in a run
AMaxTime == 900         \* the client's clock stops here

RefreshBufferS == 300       \* needs_refresh: Duration::from_secs(300)
DefaultExpiresInS == 3600   \* expires_in().unwrap_or(3600)

\* CsrfToken::new_random, and the state values a callback can carry
CsrfValues == {"X", "Y"}

\* a callback URL: whether Url::parse accepts it, and its error, state and code
\* query parameters (<< >> when absent)
CallbackUrls ==
    {[parses |-> FALSE, error |-> << >>, state |-> << >>, code |-> << >>]}
    \cup [parses : {TRUE},
          error : {<< >>, <<"access_denied">>},
          state : {<< >>} \cup {<<v>> : v \in CsrfValues},
          code : {<< >>, <<"abc">>}]

\* what the token endpoint answers to a code exchange or a refresh grant
TokenResponses ==
    {[ok |-> FALSE, expires_in |-> << >>, refresh_token |-> << >>]}
    \cup [ok : {TRUE},
          expires_in : {<< >>, <<RefreshBufferS>>},
          refresh_token : {<< >>, <<"r2">>}]

\* the tokens a caller hands to set_token, at time t
CallerTokens(t) ==
    [access_token : {0},
     refresh_token : {<< >>, <<"r1">>},
     expires_at : {t - RefreshBufferS, t, t + RefreshBufferS, t + 2 * RefreshBufferS}]

ReadOps == {"fetch_posts", "fetch_multiple_subreddit_posts", "get_user_info",
            "get_user_subreddits", "get_subreddit_info", "check_subreddit_access"}

NotAuthenticated == [tag |-> "NotAuthenticated"]
PendingAuthorization(csrf) == [tag |-> "PendingAuthorization", csrf_token |-> csrf]
Authenticated(token) == [tag |-> "Authenticated", token |-> token]
TokenExpired(token) == [tag |-> "TokenExpired", token |-> token]

\* what an operation returned
OkResult == [ok |-> TRUE, class |-> "", reason |-> ""]
ErrResult(class, reason) == [ok |-> FALSE, class |-> class, reason |-> reason]

\* the stored token expires exactly RefreshBufferS from t
AtBoundary(st, t) ==
    /\ st.tag \in {"Authenticated", "TokenExpired"}
    /\ st.token.expires_at = t + RefreshBufferS

\* the record of one operation: its name, the state it found, its result,
\* whether it posted a code exchange, what became of its refresh grant ("none"
\* when it posted none), and the access token of the API request it sent
\* (<< >> when it sent none)
OpRecord(op, res, exchanged, refresh, sent) ==
    [seq |-> 1 - lastOp.seq, op |-> op, from |-> auth_state.tag,
     boundary |-> AtBoundary(auth_state, now), ok |-> res.ok, class |-> res.class,
     reason |-> res.reason, exchanged |-> exchanged, refresh |-> refresh,
     sent |-> sent]

\* handle_callback, had it not compared the state parameter with expected_csrf
CallbackCheckNoCsrf(cb, expected_csrf) ==
    IF ~cb.parses THEN ErrResult("InvalidResponse", "Invalid callback URL")
    ELSE IF cb.error # << >> THEN ErrResult("AuthenticationFailed", cb.error[1])
    ELSE IF cb.state = << >>
         THEN ErrResult("InvalidResponse", "Missing state parameter")
    ELSE IF cb.code = << >>
         THEN ErrResult("InvalidResponse", "Missing authorization code")
    ELSE OkResult

\* handle_callback, had every failed check been an AuthenticationFailed
CallbackCheckAuthenticationFailedOnly(cb, expected_csrf) ==
    IF ~cb.parses THEN ErrResult("AuthenticationFailed", "Invalid callback URL")
    ELSE IF cb.error # << >> THEN ErrResult("AuthenticationFailed", cb.error[1])
    ELSE IF cb.state = << >>
         THEN ErrResult("AuthenticationFailed", "Missing state parameter")
    ELSE IF cb.state[1] # expected_csrf
         THEN ErrResult("AuthenticationFailed", "CSRF token mismatch")
    ELSE IF cb.code = << >>
         THEN ErrResult("AuthenticationFailed", "Missing authorization code")
    ELSE OkResult

\* handle_callback: the checks on the callback URL, in the order of the code
CallbackCheck(cb, expected_csrf) ==
    IF ~cb.parses THEN ErrResult("InvalidResponse", "Invalid callback URL")
    ELSE IF cb.error # << >> THEN ErrResult("AuthenticationFailed", cb.error[1])
    ELSE IF cb.state = << >>
         THEN ErrResult("InvalidResponse", "Missing state parameter")
    ELSE IF cb.state[1] # expected_csrf
         THEN ErrResult("AuthenticationFailed", "CSRF token mismatch")
    ELSE IF cb.code = << >>
         THEN ErrResult("InvalidResponse", "Missing authorization code")
    ELSE OkResult

\* handle_callback, had it taken a verifier from whatever state it found
HasVerifierAlways(st) == TRUE

\* handle_callback: mem::replace(&mut self.auth_state, NotAuthenticated) yields
\* a PKCE verifier
HasVerifier(st) == st.tag = "PendingAuthorization"

\* the RedditToken built from a token response received at time t
IssuedToken(resp, access, old_refresh, t) ==
    [access_token |-> access,
     refresh_token |-> IF resp.refresh_token # << >> THEN resp.refresh_token
                       ELSE old_refresh,
     expires_at |-> t + (IF resp.expires_in = << >> THEN DefaultExpiresInS
                         ELSE resp.expires_in[1])]

\* needs_refresh, had the buffer's boundary been excluded
NeedsRefreshStrict(st, t) ==
    CASE st.tag = "TokenExpired" -> TRUE
      [] st.tag = "Authenticated" -> st.token.expires_at < t + RefreshBufferS
      [] OTHER -> FALSE

\* needs_refresh
NeedsRefresh(st, t) ==
    CASE st.tag = "TokenExpired" -> TRUE
      [] st.tag = "Authenticated" -> st.token.expires_at <= t + RefreshBufferS
      [] OTHER -> FALSE

\* refresh_token: the state it leaves and what it returns
RefreshToken(st, refresh_token, resp, access, t) ==
    IF resp.ok
    THEN [state |-> Authenticated(IssuedToken(resp, access, <<refresh_token>>, t)),
          res |-> OkResult, refresh |-> "ok"]
    ELSE [state |-> st,
          res |-> ErrResult("AuthenticationFailed", "Token refresh failed"),
          refresh |-> "failed"]

\* ensure_authenticated, had it let a token without refresh token pass
EnsureAuthenticatedLenient(st, resp, access, t) ==
    CASE st.tag = "NotAuthenticated" ->
            [state |-> st, refresh |-> "none",
             res |-> ErrResult("AuthenticationFailed", "Not authenticated")]
      [] st.tag = "PendingAuthorization" ->
            [state |-> st, refresh |-> "none",
             res |-> ErrResult("AuthenticationFailed", "Authentication pending")]
      [] st.tag = "Authenticated" ->
            IF NeedsRefresh(st, t) /\ st.token.refresh_token # << >>
            THEN RefreshToken(st, st.token.refresh_token[1], resp, access, t)
            ELSE [state |-> st, refresh |-> "none", res |-> OkResult]
      [] st.tag = "TokenExpired" ->
            IF st.token.refresh_token # << >>
            THEN RefreshToken(st, st.token.refresh_token[1], resp, access, t)
            ELSE [state |-> st, refresh |-> "none", res |-> OkResult]

\* ensure_authenticated: the state it leaves, what it returns and what became
\* of its refresh grant
EnsureAuthenticated(st, resp, access, t) ==
    CASE st.tag = "NotAuthenticated" ->
            [state |-> st, refresh |-> "none",
             res |-> ErrResult("AuthenticationFailed", "Not authenticated")]
      [] st.tag = "PendingAuthorization" ->
            [state |-> st, refresh |-> "none",
             res |-> ErrResult("AuthenticationFailed", "Authentication pending")]
      [] st.tag = "Authenticated" ->
            IF NeedsRefresh(st, t)
            THEN IF st.token.refresh_token # << >>
                 THEN RefreshToken(st, st.token.refresh_token[1], resp, access, t)
                 ELSE [state |-> st, refresh |-> "none",
                       res |-> ErrResult("InvalidToken", "")]
            ELSE [state |-> st, refresh |-> "none", res |-> OkResult]
      [] st.tag = "TokenExpired" ->
            IF st.token.refresh_token # << >>
            THEN RefreshToken(st, st.token.refresh_token[1], resp, access, t)
            ELSE [state |-> st, refresh |-> "none",
                  res |-> ErrResult("InvalidToken", "")]

\* the token endpoint issues an access token iff the grant is accepted
TokenIssued(out) ==
    nextToken' = IF out.refresh = "ok" THEN nextToken + 1 ELSE nextToken

InitAuth ==
    /\ auth_state = NotAuthenticated
    /\ nextToken = 1
    /\ lastOp = [seq |-> 0, op |-> "new", from |-> "NotAuthenticated",
                 boundary |-> FALSE, ok |-> TRUE, class |-> "", reason |-> "",
                 exchanged |-> FALSE, refresh |-> "none", sent |-> << >>]
    /\ lastCallback = << >>

GenerateAuthUrl ==
    /\ \E csrf \in CsrfValues : auth_state' = PendingAuthorization(csrf)
    /\ lastOp' = OpRecord("generate_auth_url", OkResult, FALSE, "none", << >>)
    /\ lastCallback' = << >>
    /\ UNCHANGED <<now, nextToken, nonAuthVars>>

\* handle_callback: the code exchange and what follows it
ExchangeCode(resp) ==
    IF ~resp.ok
    THEN /\ auth_state' = NotAuthenticated
         /\ lastOp' = OpRecord("handle_callback",
                               ErrResult("AuthenticationFailed",
                                         "Token exchange failed"),
                               TRUE, "none", << >>)
         /\ UNCHANGED nextToken
    ELSE /\ auth_state' = Authenticated(IssuedToken(resp, nextToken, << >>, now))
         /\ lastOp' = OpRecord("handle_callback", OkResult, TRUE, "none", << >>)
         /\ nextToken' = nextToken + 1

HandleCallback(cb, expected_csrf) ==
    /\ nextToken <= MaxTokens
    /\ LET chk == CallbackCheck(cb, expected_csrf) IN
       IF ~chk.ok
       THEN /\ lastOp' = OpRecord("handle_callback", chk, FALSE, "none", << >>)
            /\ UNCHANGED <<auth_state, nextToken>>
       ELSE IF ~HasVerifier(auth_state)
       THEN /\ auth_state' = NotAuthenticated
            /\ lastOp' = OpRecord("handle_callback",
                                  ErrResult("AuthenticationFailed",
                                            "Invalid authentication state"),
                                  FALSE, "none", << >>)
            /\ UNCHANGED nextToken
       ELSE \E resp \in TokenResponses : ExchangeCode(resp)
    /\ lastCallback' = << [callback_url |-> cb, expected_csrf |-> expected_csrf] >>
    /\ UNCHANGED <<now, nonAuthVars>>

\* refresh_token, called by the client's user
RefreshTokenCall(refresh_token, resp) ==
    /\ nextToken <= MaxTokens
    /\ LET out == RefreshToken(auth_state, refresh_token, resp, nextToken, now) IN
       /\ auth_state' = out.state
       /\ lastOp' = OpRecord("refresh_token", out.res, FALSE, out.refresh, << >>)
       /\ TokenIssued(out)
    /\ lastCallback' = << >>
    /\ UNCHANGED <<now, nonAuthVars>>

SetToken(token) ==
    /\ auth_state' = IF token.expires_at <= now THEN TokenExpired(token)
                                                 ELSE Authenticated(token)
    /\ lastOp' = OpRecord("set_token", OkResult, FALSE, "none", << >>)
    /\ lastCallback' = << >>
    /\ UNCHANGED <<now, nextToken, nonAuthVars>>

EnsureAuthenticatedCall(resp) ==
    /\ nextToken <= MaxTokens
    /\ LET out == EnsureAuthenticated(auth_state, resp, nextToken, now) IN
       /\ auth_state' = out.state
       /\ lastOp' = OpRecord("ensure_authenticated", out.res, FALSE, out.refresh,
                             << >>)
       /\ TokenIssued(out)
    /\ lastCallback' = << >>
    /\ UNCHANGED <<now, nonAuthVars>>

\* a read operation: ensure_authenticated()?, then the API request with the
\* stored access token; api_ok is whether the API client returned Ok
ReadOperation(op, resp, api_ok) ==
    /\ nextToken <= MaxTokens
    /\ LET out == EnsureAuthenticated(auth_state, resp, nextToken, now) IN
       /\ auth_state' = out.state
       /\ TokenIssued(out)
       /\ lastOp' =
            IF ~out.res.ok THEN OpRecord(op, out.res, FALSE, out.refresh, << >>)
            ELSE IF out.state.tag = "Authenticated"
            THEN OpRecord(op,
                          IF api_ok THEN OkResult ELSE ErrResult("RedditApi", ""),
                          FALSE, out.refresh, <<out.state.token.access_token>>)
            ELSE OpRecord(op, ErrResult("AuthenticationFailed", "Not authenticated"),
                          FALSE, out.refresh, << >>)
    /\ lastCallback' = << >>
    /\ UNCHANGED <<now, nonAuthVars>>

\* the time of the refresh buffer passes
AuthTick ==
    /\ now < AMaxTime
    /\ now' = now + RefreshBufferS
    /\ UNCHANGED <<authVars, nonAuthVars>>

NextAuth ==
    \/ GenerateAuthUrl
    \/ \E cb \in CallbackUrls, e \in CsrfValues : HandleCallback(cb, e)
    \/ \E rt \in {"r1", "r2"}, resp \in TokenResponses : RefreshTokenCall(rt, resp)
    \/ \E token \in CallerTokens(now) : SetToken(token)
    \/ \E resp \in TokenResponses : EnsureAuthenticatedCall(resp)
    \/ \E op \in ReadOps, resp \in TokenResponses, api_ok \in BOOLEAN :
          ReadOperation(op, resp, api_ok)
    \/ AuthTick

(***************************************************************************)
(* RedditClient's read operations and the RedditApiClient they use          *)
(* (lib.rs, api.rs).  Time is in seconds.  A read operation takes &mut self, *)
(* so the operations of one RedditClient run one after the other.           *)
(***************************************************************************)
MaxReads == 3           \* read operations that reach the API in a run
CMaxTime == 120         \* the client's clock stops here

\* the responses the transport gives to the attempts of one request: each a
\* success, a permanent error, a rate limit or a server error
AttemptResponses ==
    [1..Config.max_attempts ->
        {r \in Transported : r.kind = "http" /\ r.status \in {200, 403, 429, 500}
                                /\ r.retry_after = << >>}]

\* the token endpoint's answers a read operation can meet at state st, time t:
\* all of them when it has to refresh, and none that matters otherwise
RefreshResponses(st, t) ==
    IF NeedsRefresh(st, t) THEN TokenResponses
    ELSE {[ok |-> FALSE, expires_in |-> << >>, refresh_token |-> << >>]}

\* RateLimiter::new and RetryExecutor::new, as RedditApiClient::new builds them
NewRateLimiter(t) == [tokens |-> Capacity, last_refill |-> t]
NewCircuitBreaker ==
    [state |-> "Closed", failure_count |-> 0, last_failure_time |-> << >>]

\* acquire_permit on limiter rl at time t: the refill, the sleep(wait_time) when
\* the bucket is short, and the token taken
AcquireToken(rl, t) ==
    LET tok == Refill(rl.tokens, rl.last_refill, t)
        at == IF HasTokens(tok, TokenScale) THEN t ELSE t + WaitTime(tok, TokenScale)
    IN [tokens |-> Refill(tok, t, at) - TokenScale, last_refill |-> at]

\* RetryExecutor::execute around make_request_internal, from attempt k on:
\* the attempts draw one token each from rl and get the responses rs[k+1..];
\* sent counts the HTTP responses received
RECURSIVE ExecuteFrom(_, _, _, _)
ExecuteFrom(rs, k, rl, sent) ==
    LET got == AcquireToken(rl, rl.last_refill)
        r == rs[k + 1]
        n == IF r.kind = "http" THEN sent + 1 ELSE sent
        out == ClassifyResponse(r)
        should_retry == k + 1 < Config.max_attempts
        done(ok, class, message) ==
            [ok |-> ok, class |-> class, message |-> message, sent |-> n,
             tokens |-> got.tokens, at |-> got.last_refill]
    IN IF out.ok THEN done(TRUE, "", "")
       ELSE LET strategy == GetRetryStrategy(out.error)
                delay_ms == IF strategy.kind = "RetryWithDelay" THEN strategy.delay
                            ELSE CalculateDelay(Config, k, 0)
            IN IF strategy.kind = "NoRetry" \/ ~should_retry
               THEN done(FALSE, "Internal", out.error.class)
               ELSE ExecuteFrom(rs, k + 1,
                                [tokens |-> Refill(got.tokens, got.last_refill,
                                                   got.last_refill + delay_ms \div 1000),
                                 last_refill |-> got.last_refill + delay_ms \div 1000],
                                n)

\* one request through API client `api` (its limiter and its breaker) at time t
ApiRequest(api, rs, t) ==
    IF ~AllowRequest(api.breaker, t * 1000)
    THEN [ok |-> FALSE, class |-> "Internal", message |-> "Circuit breaker is open",
          sent |-> 0, tokens |-> api.limiter.tokens, at |-> t]
    ELSE ExecuteFrom(rs, 0, [api.limiter EXCEPT !.last_refill = t,
                             !.tokens = Refill(api.limiter.tokens,
                                               api.limiter.last_refill, t)], 0)

\* RedditApiClient::new(user_agent), at time t
NewRedditApiClient(t) ==
    [limiter |-> NewRateLimiter(t), breaker |-> NewCircuitBreaker]

InitClient ==
    /\ apiLog = [seq |-> 0, tokens_before |-> 0, breaker_before |-> "Closed",
                 ok |-> TRUE, class |-> "", message |-> "", sent |-> 0,
                 tokens_after |-> 0, ended_at |-> 0]
    /\ failedReads = 0
    /\ lastReadFailedAt = << >>
    /\ rateStatus = << >>

\* fetch_posts_with_options: ensure_authenticated()?, then a new RedditApiClient
\* and the listing request through it
FetchPostsWithOptions(rs) ==
    \E resp \in RefreshResponses(auth_state, now) :
    /\ apiLog.seq < MaxReads
    /\ nextToken <= MaxTokens
    /\ LET out == EnsureAuthenticated(auth_state, resp, nextToken, now)
           api_client == NewRedditApiClient(now)
           res == ApiRequest(api_client, rs, now)
       IN /\ auth_state' = out.state
          /\ TokenIssued(out)
          /\ IF out.res.ok /\ out.state.tag = "Authenticated"
             THEN /\ res.at <= CMaxTime
                  /\ now' = res.at
                  /\ lastOp' = OpRecord("fetch_posts",
                                        IF res.ok THEN OkResult
                                        ELSE ErrResult(res.class, res.message),
                                        FALSE, out.refresh,
                                        <<out.state.token.access_token>>)
                  /\ apiLog' = [seq |-> apiLog.seq + 1,
                                tokens_before |-> api_client.limiter.tokens,
                                breaker_before |-> api_client.breaker.state,
                                ok |-> res.ok, class |-> res.class,
                                message |-> res.message, sent |-> res.sent,
                                tokens_after |-> res.tokens, ended_at |-> res.at]
                  /\ failedReads' = IF res.ok THEN 0 ELSE failedReads + 1
                  /\ lastReadFailedAt' = IF res.ok THEN lastReadFailedAt
                                         ELSE <<res.at>>
             ELSE /\ lastOp' = OpRecord("fetch_posts",
                                        IF out.res.ok
                                        THEN ErrResult("AuthenticationFailed",
                                                       "Not authenticated")
                                        ELSE out.res,
                                        FALSE, out.refresh, << >>)
                  /\ UNCHANGED <<now, apiLog, failedReads, lastReadFailedAt>>
    /\ lastCallback' = << >>
    /\ UNCHANGED <<rateStatus, nonClientVars>>

\* get_rate_limit_status: a new RedditApiClient and the status of its limiter
GetRateLimitStatus ==
    /\ rateStatus' = << [available_tokens |->
                            NewRedditApiClient(now).limiter.tokens \div TokenScale,
                         max_tokens |-> RateLimitConfig.burst_allowance,
                         at |-> now] >>
    /\ UNCHANGED <<now, authVars, apiLog, failedReads, lastReadFailedAt,
                   nonClientVars>>

\* set_token with a token that is good for the whole run
ClientSetToken ==
    \E token \in [access_token : {0}, refresh_token : {<< >>, <<"r1">>},
                   expires_at : {CMaxTime + DefaultExpiresInS}] :
        /\ auth_state' = IF token.expires_at <= now THEN TokenExpired(token)
                                                     ELSE Authenticated(token)
        /\ lastOp' = OpRecord("set_token", OkResult, FALSE, "none", << >>)
        /\ lastCallback' = << >>
        /\ UNCHANGED <<now, nextToken, clientVars, nonClientVars>>

\* time passes between two operations of the client
ClientTick ==
    /\ now + Config.base_delay_ms \div 1000 <= CMaxTime
    /\ now' = now + Config.base_delay_ms \div 1000
    /\ UNCHANGED <<authVars, clientVars, nonClientVars>>

NextClient ==
    \/ ClientSetToken
    \/ \E rs \in AttemptResponses : FetchPostsWithOptions(rs)
    \/ GetRateLimitStatus
    \/ ClientTick

(***************************************************************************)
(* Usage dashboard: the response-time percentiles.  Unit: one millisecond. *)
(***************************************************************************)
MaxSamples == 21        \* rows of api_call_tracking in a run
ResponseTimesMs == {100, 200, 300}

\* (len as f64 * p) as usize for p = pct / 100: the product is truncated
PercentileIdx(len, pct) == (len * pct) \div 100

\* values.get(idx).copied().unwrap_or(0), on a 0-based index
GetOrZero(values, idx) == IF idx < Len(values) THEN values[idx + 1] ELSE 0

\* an index one lower, as a nearest-rank percentile would take it
CalculatePercentilesNearestRank(values) ==
    IF Len(values) = 0
    THEN <<0, 0, 0>>
    ELSE <<GetOrZero(values, Max(PercentileIdx(Len(values), 50), 1) - 1),
           GetOrZero(values, Max(PercentileIdx(Len(values), 95), 1) - 1),
           GetOrZero(values, Max(PercentileIdx(Len(values), 99), 1) - 1)>>

\* calculate_percentiles(values)
CalculatePercentiles(values) ==
    IF Len(values) = 0
    THEN <<0, 0, 0>>
    ELSE <<GetOrZero(values, PercentileIdx(Len(values), 50)),
           GetOrZero(values, PercentileIdx(Len(values), 95)),
           GetOrZero(values, PercentileIdx(Len(values), 99))>>

\* the position at which ORDER BY response_time_ms returns a new row
SortedInsert(values, v) ==
    LET k == Cardinality({i \in 1..Len(values) : values[i] <= v})
    IN SubSeq(values, 1, k) \o <<v>> \o SubSeq(values, k + 1, Len(values))

InitDash ==
    /\ response_times = << >>
    /\ percentiles = << >>

\* a call is recorded in api_call_tracking with its response time
RecordApiCall(ms) ==
    /\ Len(response_times) < MaxSamples
    /\ response_times' = SortedInsert(response_times, ms)
    /\ UNCHANGED <<now, percentiles, nonDashVars>>

\* generate_performance_metrics: the query and calculate_percentiles on its rows
GeneratePerformanceMetrics ==
    /\ percentiles' = << [values |-> response_times,
                          returned |-> CalculatePercentiles(response_times)] >>
    /\ UNCHANGED <<now, response_times, nonDashVars>>

NextDash ==
    \/ \E ms \in ResponseTimesMs : RecordApiCall(ms)
    \/ GeneratePerformanceMetrics

(***************************************************************************)
(* calculate_delay on its own.  Unit: one millisecond.                     *)
(***************************************************************************)
MaxAttempt == 4         \* the attempts calculate_delay is called with

\* the configurations of the repository: base and maximum delays of Default,
\* reddit() and the tests, jitter factors 0.0, 0.1 and 0.5
DelayConfigs ==
    [base_delay_ms : {1000, 2000, 30000},
     max_delay_ms : {10000, 30000},
     backoff_multiplier : {2, 3},
     jitter_percent : {0, 10, 50}]

\* what fastrand::u64(0..=jitter_range) can draw: both ends and the middle
JitterDraws(cfg, att) ==
    {0, JitterRange(cfg, att) \div 2, JitterRange(cfg, att)}

InitDelay == delayCall = << >>

\* calculate_delay(attempt, &config)
CalculateDelayCall(cfg, att) ==
    /\ \E jitter \in JitterDraws(cfg, att) :
         delayCall' = << [config |-> cfg, attempt |-> att, jitter |-> jitter,
                          returned |-> CalculateDelay(cfg, att, jitter)] >>
    /\ UNCHANGED <<now, nonDelayVars>>

NextDelay ==
    \E cfg \in DelayConfigs, att \in 0..MaxAttempt : CalculateDelayCall(cfg, att)

(***************************************************************************)
(* API tracker: the rate-limit windows and the alerts.  Unit: one second.  *)
(***************************************************************************)
MaxTrackedCalls == 96   \* record_api_call calls in a run
TMaxTime == 60          \* the tracker's clock stops here

\* update_rate_limit_window: window_duration and max_requests_allowed
WindowConfig == [window_duration |-> 60, max_requests_allowed |-> 100]

\* AlertThresholds::default(), utilizations in percent
AlertThresholds == [warning_utilization |-> 80, critical_utilization |-> 95]

\* update_rate_limit_window: the start of the window a timestamp falls in
WindowStart(t) == (t \div WindowConfig.window_duration) * WindowConfig.window_duration

\* update_rate_limit_window: INSERT .. ON CONFLICT DO UPDATE request_count + 1
UpdateRateLimitWindow(w, t) ==
    IF WindowStart(t) \in DOMAIN w
    THEN [w EXCEPT ![WindowStart(t)] = @ + 1]
    ELSE [k \in DOMAIN w \cup {WindowStart(t)} |->
             IF k = WindowStart(t) THEN 1 ELSE w[k]]

\* check_for_alerts: the alerts it creates for a record
CheckForAlerts(rate_limited, slow) ==
    (IF rate_limited
     THEN {[alert_type |-> "rate_limit_hit", severity |-> "warning"]} ELSE {})
    \cup (IF slow
          THEN {[alert_type |-> "slow_response", severity |-> "warning"]} ELSE {})

RECURSIVE SumCounts(_)
SumCounts(w) ==
    IF DOMAIN w = {} THEN 0
    ELSE LET k == CHOOSE x \in DOMAIN w : TRUE
         IN w[k] + SumCounts([j \in DOMAIN w \ {k} |-> w[j]])

InitTracker ==
    /\ windows = << >>
    /\ alerts = {}

\* record_api_call: save_api_call_record, update_rate_limit_window and
\* check_for_alerts; slow says response_time_ms > response_time_threshold
ApiTrackerRecordApiCall(rate_limited, slow) ==
    /\ SumCounts(windows) < MaxTrackedCalls
    /\ windows' = UpdateRateLimitWindow(windows, now)
    /\ alerts' = alerts \cup CheckForAlerts(rate_limited, slow)
    /\ UNCHANGED <<now, nonTrackerVars>>

\* time passes to the next window
TrackerTick ==
    /\ now + WindowConfig.window_duration <= TMaxTime
    /\ now' = now + WindowConfig.window_duration
    /\ UNCHANGED <<trackerVars, nonTrackerVars>>

NextTracker ==
    \/ \E rl \in BOOLEAN, slow \in BOOLEAN : ApiTrackerRecordApiCall(rl, slow)
    \/ TrackerTick

Init ==
    /\ now = 0
    /\ InitQueue
    /\ InitRetry
    /\ InitRL
    /\ InitAuth
    /\ InitClient
    /\ InitFaults
    /\ InitDash
    /\ InitDelay
    /\ InitTracker

SpecQueue == Init /\ [][NextQueue]_vars
SpecRetry == Init /\ [][NextRetry]_vars
SpecRL == Init /\ [][NextRL]_vars
SpecAuth == Init /\ [][NextAuth]_vars
SpecClient == Init /\ [][NextClient]_vars
SpecQueueRestart == Init /\ [][NextQueueRestart]_vars
SpecQueueStoreFaults == Init /\ [][NextQueueStoreFaults]_vars
SpecQueueLive == Init /\ [][NextQueueLive]_vars /\ FairnessQueue
SpecDash == Init /\ [][NextDash]_vars
SpecDelay == Init /\ [][NextDelay]_vars
SpecTracker == Init /\ [][NextTracker]_vars

(***************************************************************************)
(* Claims about the request queue                                          *)
(***************************************************************************)

\* C1: whenever the processor takes a request for execution, no request then
\* in the heap that is already due (scheduled_for <= now) has a strictly
\* higher priority than the one taken (so -1, 0, +1 pushed with the same
\* scheduled_for would be taken as +1, 0, -1).
C1_HigherPriorityFirst ==
    [][(procPc = "idle" /\ procPc' = "executing")
         => \A q \in queue' :
              q.scheduled_for <= now => q.priority <= procReq'.priority]_vars

\* the step in which execute_request returns for the request it was running
ExecutionEnds == procPc = "executing" /\ procPc' = "idle"

\* C11: when an execution succeeds (the row becomes completed), a result with
\* success = true is delivered on the request's receiver, the row is completed
\* and the request is in neither the request map nor the sender map.
C11_SuccessDelivered ==
    [][(ExecutionEnds /\ rows'[procReq.request_id].status = "completed")
         => /\ received'[procReq.request_id]
                 = Append(received[procReq.request_id], TRUE)
            /\ procReq.request_id \notin DOMAIN requests'
            /\ procReq.request_id \notin result_senders']_vars

\* C12: no request is executed more than max_retries + 1 times; the failure
\* that takes retry_count beyond max_retries marks the row failed, removes the
\* request from the request map and the sender map and delivers a result with
\* success = false on its receiver.
C12_BoundedRetriesThenFailed ==
    /\ [](\A id \in DOMAIN executions : executions[id] <= MaxRetries + 1)
    /\ [][(ExecutionEnds /\ rows'[procReq.request_id].status # "completed"
                         /\ procReq.retry_count + 1 > procReq.max_retries)
           => /\ rows'[procReq.request_id].status = "failed"
              /\ procReq.request_id \notin DOMAIN requests'
              /\ procReq.request_id \notin result_senders'
              /\ received'[procReq.request_id]
                   = Append(received[procReq.request_id], FALSE)]_vars

\* the step in which a cancel_request call returns
CancelReturns(id, found) ==
    /\ cancelResult' # cancelResult
    /\ cancelResult' = << [request_id |-> id, found |-> found] >>

\* C13: cancel_request(id) returns true exactly when id was pending (in the
\* heap); after a true return id is in neither the heap, the request map nor
\* the sender map and its row has status cancelled; after a false return
\* nothing has changed.
C13_CancelRemovesAndMarks ==
    [][\A id \in 1..MaxRequests :
         /\ CancelReturns(id, TRUE)
              => /\ \E r \in queue : r.request_id = id
                 /\ \A r \in queue' : r.request_id # id
                 /\ id \notin DOMAIN requests'
                 /\ id \notin result_senders'
                 /\ rows'[id].status = "cancelled"
         /\ CancelReturns(id, FALSE)
              => /\ \A r \in queue : r.request_id # id
                 /\ UNCHANGED <<queue, requests, result_senders, rows>>]_vars

\* C14: the heap never holds more than max_queue_size requests, and an
\* enqueue_request that finds max_queue_size entries in the heap fails with
\* RateLimited and adds nothing.
C14_QueueSizeBounded ==
    /\ [](Cardinality(queue) <= MaxQueueSize)
    /\ [][(nextId' # nextId /\ Cardinality(queue) >= MaxQueueSize)
           => /\ enqueueResult' = "RateLimited"
              /\ UNCHANGED <<queue, requests, result_senders, rows, enqPending>>]_vars

\* C26: among heap entries of equal priority, the entry with the earliest
\* scheduled_for is popped first
C26_EarliestScheduledFirst ==
    \A top \in HeapPeekSet(queue) :
        \A o \in queue : o.priority = top.priority
                             => top.scheduled_for <= o.scheduled_for

\* what does hold: among heap entries of equal priority, the entry with the
\* latest scheduled_for is popped first
C26_LatestScheduledFirst ==
    \A top \in HeapPeekSet(queue) :
        \A o \in queue : o.priority = top.priority
                             => top.scheduled_for >= o.scheduled_for

\* the step in which an execution of request id ends in a failure
ExecutionFails(id) ==
    /\ ExecutionEnds
    /\ procReq.request_id = id
    /\ rows'[id].status # "completed"

\* C28: after its k-th failed execution (1 <= k <= max_retries) a request's
\* scheduled_for is the failure time plus 2^k minutes in both the heap and the
\* store, and the request is not executed again before that time.
C28_BackoffSchedule ==
    /\ [][\A id \in 1..MaxRequests :
             (ExecutionFails(id) /\ executions[id] <= MaxRetries)
                 => /\ rows'[id].scheduled_for = now + 2^executions[id]
                    /\ rows'[id].retry_count = executions[id]
                    /\ \E r \in queue' : r.request_id = id
                    /\ \A r \in queue' : r.request_id = id
                           => r.scheduled_for = now + 2^executions[id]]_vars
    /\ [][\A id \in DOMAIN executions :
             (id \in DOMAIN executions' /\ executions'[id] > executions[id]
                  /\ executions[id] >= 1)
                 => /\ rows[id].retry_count = executions[id]
                    /\ now >= rows[id].scheduled_for]_vars

\* a request failed at minutes 0 and 2 and its third execution has begun at
\* minute 6, the time its second failure scheduled
C28_Witness ==
    \E id \in DOMAIN executions :
        /\ executions[id] = 3
        /\ procPc = "executing"
        /\ procReq.request_id = id
        /\ rows[id].retry_count = 2
        /\ rows[id].scheduled_for = 6
        /\ now = 6

\* the step in which a store write of the processor fails for request id
StoreWriteFails(id) ==
    /\ Len(storeError') = Len(storeError) + 1
    /\ storeError'[Len(storeError')].request_id = id

\* request id has reached a terminal state and its result has been delivered
TerminalAndDelivered(t, rcv, id) ==
    /\ t[id].status \in {"completed", "failed"}
    /\ rcv[id] # << >>

\* C29: when a store write fails while the processor handles a popped request,
\* the request is not lost: it is still in the heap (from where a later
\* processor tick picks it up), or it has reached a terminal state with its
\* result delivered
C29_StoreFailureKeepsRequest ==
    [][\A id \in 1..MaxRequests :
         StoreWriteFails(id)
             => \/ \E r \in queue' : r.request_id = id
                \/ TerminalAndDelivered(rows', received', id)]_vars

\* what does hold: a failed write of the retry info leaves the request in the
\* heap; a failed write of executing, completed or failed leaves it out of the
\* heap with its row unchanged and nothing delivered, and it is never executed
\* again
C29_StoreFailureOutcome ==
    /\ [][\A id \in 1..MaxRequests :
             StoreWriteFails(id)
                 => /\ UNCHANGED <<rows, received, result_senders>>
                    /\ IF storeError'[Len(storeError')].write = "retry_info"
                       THEN \E r \in queue' : r.request_id = id
                       ELSE \A r \in queue' : r.request_id # id]_vars
    /\ [][\A id \in DOMAIN executions :
             (/\ \E i \in 1..Len(storeError) :
                     /\ storeError[i].request_id = id
                     /\ storeError[i].write # "retry_info"
              /\ id \in DOMAIN executions')
                 => executions'[id] = executions[id]]_vars

\* the last cancel_request call was for id and returned true
CancelledLast(id) == cancelResult = << [request_id |-> id, found |-> TRUE] >>

\* C35: once cancel_request(id) has returned true, id is never pushed onto the
\* heap again, no new execution of id starts and no result for id is delivered,
\* even when the cancel interleaves with an execution of id that then fails
C35_CancelIsFinal ==
    [][\A id \in 1..MaxRequests :
         (CancelledLast(id) /\ cancelResult' = cancelResult)
             => /\ \A r \in queue' \ queue : r.request_id # id
                /\ executions'[id] = executions[id]
                /\ received'[id] = received[id]]_vars

\* what does hold: after cancel_request(id) has returned true no result for id
\* is delivered, and id comes back into the heap only through the failure of an
\* execution that was in flight when it was cancelled
C35_CancelStopsDelivery ==
    [][\A id \in 1..MaxRequests :
         (CancelledLast(id) /\ cancelResult' = cancelResult)
             => /\ received'[id] = received[id]
                /\ (\E r \in queue' \ queue : r.request_id = id)
                      => (ExecutionEnds /\ procReq.request_id = id)]_vars

\* the step in which a RequestResult is sent on the channel of request id
ResultSent(id) ==
    /\ id \in DOMAIN received
    /\ received'[id] # received[id]

\* C36: for each enqueued request at most one RequestResult is ever sent on its
\* channel, and none is sent while the request is still scheduled for a retry
C36_OnlyFinalResult ==
    /\ [](\A id \in DOMAIN received : Len(received[id]) <= 1)
    /\ [][\A id \in 1..MaxRequests :
             ResultSent(id) => \A r \in queue' : r.request_id # id]_vars

\* what does hold: every result that is sent reports a failure that has just
\* scheduled a retry; the final outcome is never sent
C36_OnlyRetryResults ==
    [][\A id \in 1..MaxRequests :
         ResultSent(id)
             => /\ received'[id] = Append(received[id], FALSE)
                /\ \E r \in queue' : r.request_id = id /\ r.scheduled_for > now
                /\ id \in DOMAIN requests']_vars

\* the processor is between two requests
ProcessorBetweenRequests == procPc = "idle"

\* the request ids in the heap
HeapIds == {r.request_id : r \in queue}

\* C37: whenever the processor is between two requests, the request map and
\* the sender map hold the same ids, every id in the heap is in both maps, and
\* no id is twice in the heap
C37_MapsAgree ==
    ProcessorBetweenRequests
        => /\ DOMAIN requests = result_senders
           /\ HeapIds \subseteq DOMAIN requests
           /\ HeapIds \subseteq result_senders
           /\ Cardinality(HeapIds) = Cardinality(queue)

\* what does hold: every id in the heap is in the request map, every id with a
\* sender is in the request map, and no id is twice in the heap
C37_HeapWithinRequests ==
    ProcessorBetweenRequests
        => /\ HeapIds \subseteq DOMAIN requests
           /\ result_senders \subseteq DOMAIN requests
           /\ Cardinality(HeapIds) = Cardinality(queue)

\* the rows with status executing
ExecutingRows == {id \in DOMAIN rows : rows[id].status = "executing"}

\* C38: at most one request_queue row has status executing at any time, and a
\* row whose request waits in the heap for a retry does not have status
\* executing
C38_OneExecutingRow ==
    /\ Cardinality(ExecutingRows) <= 1
    /\ \A r \in queue :
          (r.request_id \in DOMAIN requests /\ requests[r.request_id].retry_count >= 1)
              => r.request_id \notin ExecutingRows

\* what does hold: a row whose request waits in the heap for a retry keeps the
\* status executing
C38_RetryRowsStayExecuting ==
    \A r \in queue :
        (r.request_id \in DOMAIN requests /\ requests[r.request_id].retry_count >= 1)
            => r.request_id \in ExecutingRows

\* the heap entries that are due
DueEntries == {r \in queue : r.scheduled_for <= now}

\* C39: the processor never idles on a tick while some request in the heap is
\* due: the entry its pop returns is due whenever any entry is, so a due
\* request is not held back by an entry scheduled in the future
C39_DueNotHeldBack ==
    (procPc = "idle" /\ DueEntries # {})
        => \A top \in HeapPeekSet(queue) : top.scheduled_for <= now

\* what does hold: an execution starts only for the entry the pop returns, the
\* greatest under Ord, and only when that entry is due
C39_OnlyTopExecutes ==
    [][\A id \in DOMAIN executions :
         (id \in DOMAIN executions' /\ executions'[id] > executions[id])
             => \E top \in HeapPeekSet(queue) :
                   top.request_id = id /\ top.scheduled_for <= now]_vars

\* C40: with the processor running, the store available and time advancing,
\* every enqueued request eventually reaches a terminal status (completed,
\* failed or cancelled) and the heap and both maps eventually become empty
C40_AllRequestsTerminate ==
    /\ <>[](\A id \in DOMAIN rows : rows[id].status \in {"completed", "failed", "cancelled"})
    /\ <>[](queue = {} /\ requests = << >> /\ result_senders = {})

\* what does hold: the row of a request that is in neither the request map nor
\* in flight never changes again, so a cancelled request, whose row keeps the
\* status it had, never reaches a terminal status
C40_CancelledRowsStay ==
    [][\A id \in DOMAIN rows :
         (/\ id \notin DOMAIN requests
          /\ ~(procPc = "executing" /\ procReq.request_id = id)
          /\ \A req \in enqPending : req.request_id # id)
             => rows'[id] = rows[id]]_vars

\* the rows a new process finds still waiting to be executed
PendingRows(t) == {id \in DOMAIN t : t[id].status = "queued"}

\* C24: after a restart of the process (a new RequestQueue over the same store)
\* every request_queue row that was still pending is in the in-memory heap again
C24_RestartReloadsPending ==
    [][restarts' = restarts + 1
         => \A id \in PendingRows(rows') : \E r \in queue' : r.request_id = id]_vars

\* what does hold: the new process starts with an empty heap and empty maps over
\* the unchanged table, and executes only what is enqueued after the restart
C24_RestartStartsEmpty ==
    /\ [][restarts' = restarts + 1
            => (queue' = {} /\ requests' = << >> /\ rows' = rows)]_vars
    /\ [][\A id \in DOMAIN executions :
              (restarts >= 1 /\ id \in DOMAIN executions'
                   /\ executions'[id] > executions[id])
                  => id \in DOMAIN requests]_vars

(***************************************************************************)
(* Claims about the retry executor and the HTTP pipeline                   *)
(***************************************************************************)
CircuitOpenError ==
    [ok |-> FALSE, class |-> "Internal", message |-> "Circuit breaker is open"]

\* C2: once failure_threshold execute calls in a row have failed, an execute
\* call that begins before recovery_timeout has elapsed since the last of those
\* failures returns the circuit-open error at once, and its operation is not
\* invoked.
C2_OpenBreakerRejects ==
    [][\A c \in Callers :
         (/\ callPc[c] = "idle" /\ callPc'[c] # "idle"
          /\ failedCalls >= Config.failure_threshold
          /\ lastFailedAt # << >>
          /\ now - lastFailedAt[1] < Config.recovery_timeout_ms)
         => (/\ callPc'[c] = "returned"
             /\ result'[c] = <<CircuitOpenError>>
             /\ invoked'[c] = 0)]_vars

\* a call rejected by the breaker that failure_threshold failed calls opened,
\* some time after the last of them
C2_Witness ==
    \E c \in Callers :
        /\ callPc[c] = "returned"
        /\ result[c] = <<CircuitOpenError>>
        /\ invoked[c] = 0
        /\ failedCalls >= Config.failure_threshold
        /\ lastFailedAt # << >>
        /\ now > lastFailedAt[1]
        /\ now - lastFailedAt[1] < Config.recovery_timeout_ms

\* C3: an attempt k that succeeds makes execute return Ok with the value of
\* that attempt, and for as long as the caller holds that result the operation
\* has been invoked k + 1 times: once per attempt 0..k and never after the
\* success.
C3_SuccessReturnsOnce ==
    /\ [][\A c \in Callers :
            (/\ callPc[c] = "running" /\ callPc'[c] # "running"
             /\ ClassifyResponse(lastResponse'[c][1]).ok)
            => (/\ callPc'[c] = "returned"
                /\ result'[c] = << [ok |-> TRUE, attempt |-> attempt[c],
                                    status |-> lastResponse'[c][1].status] >>)]_vars
    /\ [](\A c \in Callers :
            (result[c] # << >> /\ result[c][1].ok)
            => (/\ callPc[c] = "returned"
                /\ attempt[c] = result[c][1].attempt
                /\ invoked[c] = result[c][1].attempt + 1))

\* a call that returned Ok from a retry: attempt 0 failed with a retryable
\* error, attempt 1 succeeded
C3_Witness ==
    \E c \in Callers :
        /\ callPc[c] = "returned"
        /\ result[c] # << >>
        /\ result[c][1].ok
        /\ result[c][1].attempt = 1
        /\ invoked[c] = 2

\* C4: every HTTP response a call has received has one row in
\* api_call_tracking.
C4_RowPerResponse ==
    \A c \in Callers : Len(tracked[c]) = httpCount[c]

\* the step in which caller c's execute call begins
ExecuteBegins(c) == callPc[c] = "idle" /\ callPc'[c] # "idle"

\* the step in which caller c's execute call returns after invoking its operation
ExecuteReturns(c) == callPc[c] = "running" /\ callPc'[c] = "returned"

\* C15: while the call admitted as the HalfOpen probe is in flight, an execute
\* call that begins is rejected with the circuit-open error and its operation
\* is not invoked, so the probe is the only call the HalfOpen breaker admits.
C15_SingleHalfOpenProbe ==
    [][\A c \in Callers :
         (ExecuteBegins(c) /\ breaker.state = "HalfOpen" /\ probe # << >>)
         => (/\ callPc'[c] = "returned"
             /\ result'[c] = <<CircuitOpenError>>
             /\ invoked'[c] = 0)]_vars

\* a call that begins is turned away by the breaker
Rejected(c) ==
    /\ callPc'[c] = "returned"
    /\ result'[c] = <<CircuitOpenError>>
    /\ invoked'[c] = 0

\* what the breaker must be after the call that ended with ok at time t
ProbeOutcome(b, ok, t) ==
    IF ok
    THEN b.state = "Closed" /\ b.failure_count = 0
    ELSE b.state = "Open" /\ b.last_failure_time = <<t>>

\* C16: the call admitted as the HalfOpen probe leaves the breaker
\* Closed with failure counter 0 when it succeeds and Open with the timer
\* restarted at that instant when it fails, and after such a failure every
\* call that begins before recovery_timeout has elapsed is rejected.
C16_ProbeOutcome ==
    /\ [][\A c \in Callers :
            (ExecuteReturns(c) /\ probe = <<c>>)
            => ProbeOutcome(breaker', result'[c][1].ok, now)]_vars
    /\ [][\A c \in Callers :
            (/\ ExecuteBegins(c)
             /\ probeResult # << >>
             /\ ~probeResult[1].ok
             /\ now - probeResult[1].at < Config.recovery_timeout_ms)
            => Rejected(c)]_vars

\* what record_success and record_failure do for C16 when no other call has
\* moved the breaker: a probe that ends while the breaker is still HalfOpen leaves
\* it Closed with failure counter 0 when it succeeded and Open with the timer
\* restarted at that instant when it failed; while the breaker is Open after a
\* probe's failure, every call that begins before recovery_timeout has elapsed
\* since that failure is rejected.
C16_HalfOpenOutcome ==
    /\ [][\A c \in Callers :
            (ExecuteReturns(c) /\ probe = <<c>> /\ breaker.state = "HalfOpen")
            => ProbeOutcome(breaker', result'[c][1].ok, now)]_vars
    /\ [][\A c \in Callers :
            (/\ ExecuteBegins(c)
             /\ breaker.state = "Open"
             /\ probeResult # << >>
             /\ ~probeResult[1].ok
             /\ now - probeResult[1].at < Config.recovery_timeout_ms)
            => Rejected(c)]_vars

\* the error classes the retry table lists as permanent: authentication
\* failure, invalid token, forbidden, not found
NoRetryClasses ==
    {"AuthenticationFailed", "InvalidToken", "Forbidden", "SubredditNotFound",
     "PostNotFound"}

\* the first attempt of caller c's call has just failed with a permanent error
FirstErrorIsNoRetry(c) ==
    /\ attempt[c] = 0
    /\ lastResponse[c] # << >>
    /\ ~ClassifyResponse(lastResponse[c][1]).ok
    /\ ClassifyResponse(lastResponse[c][1]).error.class \in NoRetryClasses

\* C17: within one execute call the operation is invoked at most max_attempts
\* times; every permanent error class has strategy NoRetry, and a call whose
\* first error is one of them returns the failure at once, its operation
\* having been invoked exactly once.
C17_BoundedInvocations ==
    /\ [](\A c \in Callers : invoked[c] <= Config.max_attempts)
    /\ [](\A cls \in NoRetryClasses :
            GetRetryStrategy([class |-> cls]).kind = "NoRetry")
    /\ [][\A c \in Callers :
            (callPc[c] = "running" /\ callPc'[c] # "running"
               /\ FirstErrorIsNoRetry(c)')
            => (/\ callPc'[c] = "returned"
                /\ ~result'[c][1].ok
                /\ invoked'[c] = 1)]_vars
    /\ [](\A c \in Callers :
            (callPc[c] = "returned" /\ FirstErrorIsNoRetry(c)) => invoked[c] = 1)

\* a call whose first attempt was answered 401 has returned an error after one
\* invocation, with attempts to spare
C17_Witness ==
    \E c \in Callers :
        /\ callPc[c] = "returned"
        /\ FirstErrorIsNoRetry(c)
        /\ lastResponse[c][1].kind = "http"
        /\ lastResponse[c][1].status = 401
        /\ ~result[c][1].ok
        /\ invoked[c] = 1
        /\ Config.max_attempts > 1

\* the step in which caller c's call starts the sleep before its next attempt
SleepBegins(c) == callPc[c] = "running" /\ callPc'[c] = "sleeping"

\* C18: every delay execute sleeps between two attempts is at most
\* max_delay_ms, whether computed by calculate_delay or taken from the
\* server's retry-after value.
C18_DelayBounded ==
    [][\A c \in Callers :
         SleepBegins(c) => wakeAt'[c] - now <= Config.max_delay_ms]_vars

\* what does hold for C18: the delays calculate_delay computes, for every
\* jitter it can draw, are at most max_delay_ms
C18_ComputedDelayBounded ==
    [][\A c \in Callers :
         (SleepBegins(c)
            /\ ClassifyResponse(lastResponse'[c][1]).error.class # "RateLimitExceeded")
         => wakeAt'[c] - now <= Config.max_delay_ms]_vars

\* C19: when execute gives up, the error it returns has the class of the last
\* error its operation returned (401: InvalidToken, 403: Forbidden, a final
\* 429: RateLimitExceeded).
C19_ErrorClassPreserved ==
    [][\A c \in Callers :
         (ExecuteReturns(c) /\ ~result'[c][1].ok)
         => result'[c][1].class
              = ClassifyResponse(lastResponse'[c][1]).error.class]_vars

\* C20: a call whose request is answered with HTTP 404 returns at once with
\* the not-found error, having sent that one HTTP request and no other.
C20_NotFoundNotRetried ==
    [][\A c \in Callers :
         (/\ callPc[c] = "running"
          /\ lastResponse'[c] # lastResponse[c]
          /\ lastResponse'[c][1].kind = "http"
          /\ lastResponse'[c][1].status = 404)
         => (/\ callPc'[c] = "returned"
             /\ ~result'[c][1].ok
             /\ httpCount'[c] = 1)]_vars

\* C21: check_subreddit_access returns Ok(true) when the about request got a
\* 2xx response, Ok(false) when it got 403 or 404, and Err for every other
\* failure of the request.
C21_SubredditAccess ==
    \A c \in Callers :
      (callPc[c] = "returned" /\ lastResponse[c] # << >>)
      => LET r == lastResponse[c][1]
             out == CheckSubredditAccess(result[c][1])
         IN IF r.kind = "http" /\ r.status >= 200 /\ r.status < 300
            THEN out = [ok |-> TRUE, value |-> TRUE]
            ELSE IF r.kind = "http" /\ r.status \in {403, 404}
            THEN out = [ok |-> TRUE, value |-> FALSE]
            ELSE ClassifyResponse(r).ok \/ ~out.ok

\* what does hold for C21: a 2xx answer gives Ok(true), and every failure of
\* the request, 403 and 404 included, gives Err
C21_AccessErrorsPropagate ==
    \A c \in Callers :
      (callPc[c] = "returned" /\ lastResponse[c] # << >>)
      => LET out == CheckSubredditAccess(result[c][1])
         IN IF ClassifyResponse(lastResponse[c][1]).ok
            THEN out = [ok |-> TRUE, value |-> TRUE]
            ELSE ~out.ok

ReadReturns == apiLog'.seq = apiLog.seq + 1

\* C22: the read operations of one RedditClient share one token bucket and one
\* circuit breaker: an operation starts with no more tokens than the previous
\* one left plus what has been refilled since, and after failure_threshold
\* failed operations in a row an operation begun before recovery_timeout has
\* elapsed is rejected as circuit-open without an HTTP request.
C22_SharedLimiterAndBreaker ==
    /\ [][(ReadReturns /\ apiLog.seq > 0)
           => apiLog'.tokens_before
                <= Refill(apiLog.tokens_after, apiLog.ended_at, now)]_vars
    /\ [][(/\ ReadReturns
           /\ failedReads >= Config.failure_threshold
           /\ (now - lastReadFailedAt[1]) * 1000 < Config.recovery_timeout_ms)
          => (/\ ~apiLog'.ok
              /\ apiLog'.message = "Circuit breaker is open"
              /\ apiLog'.sent = 0)]_vars

\* what does hold for C22: every read operation starts with a full bucket and
\* a closed breaker, whatever the operations before it did
C22_FreshClientPerOperation ==
    [][ReadReturns
         => (/\ apiLog'.tokens_before = Capacity
             /\ apiLog'.breaker_before = "Closed"
             /\ apiLog'.message # "Circuit breaker is open")]_vars

(***************************************************************************)
(* Claims about the rate limiter                                           *)
(***************************************************************************)
\* the permits acquire_permit has committed in the last time_window seconds
\* (the interval that ends now and is open at its start)
PermitsInWindow ==
    Cardinality({i \in 1..Len(grants) : grants[i] > now - RateLimitConfig.time_window})

\* C5: in every rolling window of time_window seconds the permits
\* acquire_permit has handed out number at most burst_allowance + max_requests.
C5_RollingWindowBound ==
    PermitsInWindow <= RateLimitConfig.burst_allowance + RateLimitConfig.max_requests

\* C6: the token count stays within [0, capacity]; an acquire of one token
\* succeeds, taking one token, exactly when the bucket holds at least one token
\* at its check, and fails leaving the count alone otherwise; and while no time
\* has passed since the bucket was built full, each success has taken one of
\* the burst_allowance tokens (so burst_allowance acquisitions succeed and the
\* next fails).
C6_TokenBucketBounds ==
    /\ [](tokens >= 0 /\ tokens <= Capacity)
    /\ [](now = 0 => tokens = Capacity - Len(grants) * TokenScale)
    /\ [][\A t \in Acquirers :
            (rlPc[t] = "refilled" /\ rlPc'[t] # "refilled")
            => IF tokens >= TokenScale
               THEN rlPc'[t] = "holding" /\ tokens' = tokens - TokenScale
               ELSE rlPc'[t] = "sleeping" /\ tokens' = tokens]_vars

\* with no time elapsed, burst_allowance acquisitions have emptied the full
\* bucket and the next acquire has failed
C6_Witness ==
    /\ now = 0
    /\ Len(grants) = RateLimitConfig.burst_allowance
    /\ tokens = 0
    /\ \E t \in Acquirers : rlPc[t] = "sleeping" /\ rlWakeAt[t] > 0

\* the tasks that hold a semaphore slot: inside acquire_permit past the
\* semaphore, or holding the RateLimitPermit
SlotHolders == {t \in Acquirers : rlPc[t] \notin {"idle", "semaphore"}}

\* C23: at most burst_allowance RateLimitPermits are held at once; every slot
\* of the semaphore is either free or with a task that is in acquire_permit or
\* in the pipeline; whichever way make_request_internal returns, the slot goes
\* back (to the semaphore or to the oldest queued task); and with no request
\* in flight available_permits is burst_allowance.
C23_PermitsReturned ==
    /\ [](Cardinality({t \in Acquirers : rlPc[t] = "holding"})
            <= RateLimitConfig.burst_allowance)
    /\ [](available_permits + Cardinality(SlotHolders)
            = RateLimitConfig.burst_allowance)
    /\ []((\A t \in Acquirers : rlPc[t] = "idle")
            => available_permits = RateLimitConfig.burst_allowance)
    /\ [][\A t \in Acquirers :
            (rlPc[t] = "holding" /\ rlPc'[t] # "holding")
            => (/\ lastExit' # << >>
                /\ \/ available_permits' = available_permits + 1
                   \/ /\ semWaiters # << >>
                      /\ rlPc'[Head(semWaiters)] = "loop"
                      /\ available_permits' = available_permits)]_vars

\* a request has just returned on an error path (a transport error), nothing
\* is in flight and the semaphore is full again
C23_Witness ==
    /\ lastExit = <<"Network">>
    /\ grants # << >>
    /\ \A t \in Acquirers : rlPc[t] = "idle"
    /\ available_permits = RateLimitConfig.burst_allowance

\* C32: in every RateLimitStatus returned by get_rate_limit_status, after any
\* sequence of acquire_permit calls, current_window_requests <=
\* requests_per_minute
C32_WindowRequestsBounded ==
    lastStatus # << >>
        => lastStatus[1].current_window_requests <= lastStatus[1].requests_per_minute

(***************************************************************************)
(* Claims about the OAuth2 state machine                                   *)
(***************************************************************************)
\* an operation of the client has just run
OperationRan == lastOp'.seq # lastOp.seq

\* C7, as stated: a step from NotAuthenticated straight to Authenticated is a
\* successful refresh.
C7_DirectOnlyByRefresh ==
    [][(auth_state.tag = "NotAuthenticated" /\ auth_state'.tag = "Authenticated")
         => lastOp'.refresh = "ok"]_vars

\* C7, amended: a step from NotAuthenticated straight to Authenticated is a
\* successful refresh or a set_token with an unexpired token; every operation
\* that installs an Authenticated state is one of these two or a
\* handle_callback that found PendingAuthorization.
C7_DirectOnlyByRefreshOrSetToken ==
    /\ [][(auth_state.tag = "NotAuthenticated" /\ auth_state'.tag = "Authenticated")
            => (lastOp'.refresh = "ok" \/ lastOp'.op = "set_token")]_vars
    /\ [][(OperationRan /\ auth_state'.tag = "Authenticated"
                        /\ auth_state' # auth_state)
            => \/ lastOp'.refresh = "ok"
               \/ lastOp'.op = "set_token"
               \/ (lastOp'.op = "handle_callback"
                   /\ auth_state.tag = "PendingAuthorization")]_vars

\* a refresh_token call that found NotAuthenticated and left Authenticated
C7_Witness ==
    /\ lastOp.op = "refresh_token"
    /\ lastOp.from = "NotAuthenticated"
    /\ lastOp.refresh = "ok"
    /\ auth_state.tag = "Authenticated"

\* the callback of the last handle_callback carries no state parameter, or one
\* that differs from expected_csrf
StateAbsent == lastCallback'[1].callback_url.state = << >>
StateMismatch ==
    /\ lastCallback'[1].callback_url.state # << >>
    /\ lastCallback'[1].callback_url.state[1] # lastCallback'[1].expected_csrf

\* a handle_callback whose callback's state is absent or differs returns an
\* error, posts no code exchange and leaves the auth state as it found it
C8_BadStateFails ==
    (OperationRan /\ lastOp'.op = "handle_callback" /\ (StateAbsent \/ StateMismatch))
    => (~lastOp'.ok /\ ~lastOp'.exchanged /\ auth_state' = auth_state)

\* C8, as stated: such a handle_callback fails without exchange, and on a
\* mismatch its error is AuthenticationFailed "CSRF token mismatch".
C8_CsrfEnforced ==
    [][/\ C8_BadStateFails
       /\ (OperationRan /\ lastOp'.op = "handle_callback" /\ StateMismatch)
          => (lastOp'.class = "AuthenticationFailed"
              /\ lastOp'.reason = "CSRF token mismatch")]_vars

\* C8, amended: such a handle_callback fails without exchange, and on a
\* mismatch in a callback without error parameter its error is
\* AuthenticationFailed "CSRF token mismatch"; with an error parameter the
\* error is AuthenticationFailed with that parameter's value as reason.
C8_CsrfEnforcedAfterErrorParam ==
    [][/\ C8_BadStateFails
       /\ (OperationRan /\ lastOp'.op = "handle_callback" /\ StateMismatch)
          => /\ lastOp'.class = "AuthenticationFailed"
             /\ lastOp'.reason =
                  IF lastCallback'[1].callback_url.error = << >>
                  THEN "CSRF token mismatch"
                  ELSE lastCallback'[1].callback_url.error[1]]_vars

\* a handle_callback in PendingAuthorization whose callback carries a code and
\* a state that differs from expected_csrf was answered "CSRF token mismatch"
C8_Witness ==
    /\ lastOp.op = "handle_callback"
    /\ lastOp.from = "PendingAuthorization"
    /\ lastCallback # << >>
    /\ lastCallback[1].callback_url.state # << >>
    /\ lastCallback[1].callback_url.state[1] # lastCallback[1].expected_csrf
    /\ lastCallback[1].callback_url.code # << >>
    /\ lastOp.reason = "CSRF token mismatch"
    /\ auth_state.tag = "PendingAuthorization"

\* the stored token expires within the refresh buffer (boundary included)
ExpiresWithinBuffer ==
    /\ auth_state.tag \in {"Authenticated", "TokenExpired"}
    /\ auth_state.token.expires_at <= now + RefreshBufferS

\* C9: a read operation invoked while the stored token expires within 5
\* minutes sends an API request only after a successful refresh, and with the
\* access token that refresh installed, not the one it found; it skips the
\* refresh grant only when the token has no refresh token, and then sends
\* nothing.
C9_RefreshBeforeSend ==
    [][(OperationRan /\ lastOp'.op \in ReadOps /\ ExpiresWithinBuffer)
         => /\ lastOp'.sent # << >>
               => /\ lastOp'.refresh = "ok"
                  /\ auth_state'.tag = "Authenticated"
                  /\ lastOp'.sent = <<auth_state'.token.access_token>>
                  /\ auth_state'.token.access_token # auth_state.token.access_token
            /\ lastOp'.refresh = "none"
               => /\ auth_state.token.refresh_token = << >>
                  /\ lastOp'.sent = << >>]_vars

\* a read operation that found an Authenticated token expiring in exactly 5
\* minutes, refreshed it and sent its request with the new access token
C9_Witness ==
    /\ lastOp.op \in ReadOps
    /\ lastOp.from = "Authenticated"
    /\ lastOp.boundary
    /\ lastOp.refresh = "ok"
    /\ auth_state.tag = "Authenticated"
    /\ lastOp.sent = <<auth_state.token.access_token>>

\* C10: ensure_authenticated returns AuthenticationFailed in NotAuthenticated
\* and in PendingAuthorization, InvalidToken in TokenExpired and in
\* Authenticated within the refresh buffer when the token has no refresh
\* token, and leaves the state Authenticated whenever it returns Ok.
C10_EnsureAuthenticated ==
    [][(OperationRan /\ lastOp'.op = "ensure_authenticated")
         => /\ auth_state.tag \in {"NotAuthenticated", "PendingAuthorization"}
               => (~lastOp'.ok /\ lastOp'.class = "AuthenticationFailed")
            /\ (ExpiresWithinBuffer /\ auth_state.token.refresh_token = << >>)
               => (~lastOp'.ok /\ lastOp'.class = "InvalidToken")
            /\ lastOp'.ok => auth_state'.tag = "Authenticated"]_vars

\* ensure_authenticated found an Authenticated token at the edge of the buffer
\* with no refresh token, and returned InvalidToken
C10_Witness ==
    /\ lastOp.op = "ensure_authenticated"
    /\ lastOp.from = "Authenticated"
    /\ lastOp.boundary
    /\ lastOp.class = "InvalidToken"
    /\ auth_state.tag = "Authenticated"
    /\ auth_state.token.refresh_token = << >>

\* the last operation was a handle_callback; its callback URL follows
CallbackRan == lastOp.op = "handle_callback" /\ lastCallback # << >>
CallbackUrl == lastCallback[1].callback_url

\* one of the failure cases of handle_callback applies to the last call
CallbackFailureCase ==
    \/ ~CallbackUrl.parses
    \/ CallbackUrl.error # << >>
    \/ CallbackUrl.state = << >>
    \/ CallbackUrl.code = << >>
    \/ lastOp.from # "PendingAuthorization"

\* C25: handle_callback fails with AuthenticationFailed when the callback URL
\* does not parse, when it carries an error parameter (whose value is the
\* reason), when its state parameter is missing, when its code parameter is
\* missing, and when the auth state is not PendingAuthorization.
C25_CallbackFailsAuthenticationFailed ==
    (CallbackRan /\ CallbackFailureCase)
        => /\ ~lastOp.ok
           /\ lastOp.class = "AuthenticationFailed"
           /\ (CallbackUrl.parses /\ CallbackUrl.error # << >>)
                  => lastOp.reason = CallbackUrl.error[1]

\* C25 as the code has it: handle_callback fails in each of these cases, and
\* the first check that fails, in the order URL, error parameter, state
\* parameter, code parameter, auth state, decides the error: InvalidResponse
\* for a URL that does not parse, a missing state and a missing code,
\* AuthenticationFailed for an error parameter (its value is the reason), a
\* state that differs from expected_csrf and an auth state other than
\* PendingAuthorization.
C25_CallbackFailureClasses ==
    (CallbackRan /\ CallbackFailureCase)
        => /\ ~lastOp.ok
           /\ ~lastOp.exchanged
           /\ IF ~CallbackUrl.parses
              THEN lastOp.class = "InvalidResponse"
              ELSE IF CallbackUrl.error # << >>
              THEN /\ lastOp.class = "AuthenticationFailed"
                   /\ lastOp.reason = CallbackUrl.error[1]
              ELSE IF CallbackUrl.state = << >>
              THEN lastOp.class = "InvalidResponse"
              ELSE IF CallbackUrl.state[1] # lastCallback[1].expected_csrf
              THEN /\ lastOp.class = "AuthenticationFailed"
                   /\ lastOp.reason = "CSRF token mismatch"
              ELSE IF CallbackUrl.code = << >>
              THEN lastOp.class = "InvalidResponse"
              ELSE /\ lastOp.class = "AuthenticationFailed"
                   /\ lastOp.reason = "Invalid authentication state"

\* a handle_callback in PendingAuthorization whose callback carries the expected
\* state and no code was answered InvalidResponse
C25_Witness ==
    /\ CallbackRan
    /\ lastOp.from = "PendingAuthorization"
    /\ CallbackUrl.parses
    /\ CallbackUrl.error = << >>
    /\ CallbackUrl.state = <<lastCallback[1].expected_csrf>>
    /\ CallbackUrl.code = << >>
    /\ ~lastOp.ok
    /\ lastOp.class = "InvalidResponse"

\* C34: a handle_callback call that returns an error leaves the auth state
\* exactly as it was: a PendingAuthorization keeps its csrf and verifier, an
\* Authenticated or TokenExpired state keeps its token
C34_FailedCallbackKeepsState ==
    [][(OperationRan /\ lastOp'.op = "handle_callback" /\ ~lastOp'.ok)
         => auth_state' = auth_state]_vars

\* what does hold: a handle_callback that fails a check on the callback URL
\* leaves the auth state as it was; one that fails later (no PendingAuthorization
\* found, or the code exchange failed) leaves NotAuthenticated
C34_FailedCallbackOutcome ==
    [][(OperationRan /\ lastOp'.op = "handle_callback" /\ ~lastOp'.ok)
         => IF lastOp'.reason \in {"Invalid authentication state",
                                    "Token exchange failed"}
            THEN auth_state' = NotAuthenticated
            ELSE auth_state' = auth_state]_vars

(***************************************************************************)
(* Claims about the usage dashboard                                        *)
(***************************************************************************)

\* the values of the last calculate_percentiles call are in ascending order
SamplesAscending ==
    \A i \in 1..(Len(percentiles[1].values) - 1) :
        percentiles[1].values[i] <= percentiles[1].values[i + 1]

CappedExponential(call) ==
    Min(call.config.max_delay_ms,
        call.config.base_delay_ms * call.config.backoff_multiplier^call.attempt)

\* C31: calculate_delay(attempt) with jitter_factor 0 equals
\* d = min(max_delay_ms, base_delay_ms * multiplier^attempt); with jitter_factor
\* j > 0 the result lies between d and d + d*j inclusive.
C31_DelayFormula ==
    delayCall # << >>
        => LET call == delayCall[1]
               d == CappedExponential(call)
           IN IF call.config.jitter_percent = 0
              THEN call.returned = d
              ELSE /\ d <= call.returned
                   /\ call.returned * 100 <= d * 100 + d * call.config.jitter_percent

\* calculate_delay(1) with base 1000, multiplier 2 and jitter factor 0.5 drew
\* the whole jitter range and returned 3000
C31_Witness ==
    /\ delayCall # << >>
    /\ delayCall[1].attempt = 1
    /\ delayCall[1].config.base_delay_ms = 1000
    /\ delayCall[1].config.backoff_multiplier = 2
    /\ delayCall[1].config.jitter_percent = 50
    /\ delayCall[1].jitter = 1000
    /\ delayCall[1].returned = 3000

(***************************************************************************)
(* Claims about the API tracker                                            *)
(***************************************************************************)

\* the step in which a record_api_call brings the current window to at least
\* pct percent of max_requests_allowed
WindowReaches(pct) ==
    /\ windows' # windows
    /\ windows'[WindowStart(now)] * 100 >= pct * WindowConfig.max_requests_allowed

\* the alerts check_for_alerts creates for other reasons than utilization
OtherAlertTypes == {"rate_limit_hit", "slow_response"}

\* C33: when a record_api_call brings the request_count of the current window
\* to at least 80% (95%) of the 100-request limit, a warning (critical)
\* utilization alert is created
C33_UtilizationAlerts ==
    [][/\ WindowReaches(AlertThresholds.warning_utilization)
           => \E a \in alerts' : /\ a.alert_type \notin OtherAlertTypes
                                  /\ a.severity = "warning"
       /\ WindowReaches(AlertThresholds.critical_utilization)
           => \E a \in alerts' : /\ a.alert_type \notin OtherAlertTypes
                                  /\ a.severity = "critical"]_vars

\* what does hold: the only alerts ever created are the warnings for a
\* rate-limited request and for a slow response, whatever the window's count
C33_NoUtilizationAlerts ==
    \A a \in alerts : a.alert_type \in OtherAlertTypes /\ a.severity = "warning"

====
